---- MODULE Spec2Model ----
(***************************************************************************)
(* Chirality Framework CF14 core: canonical values, deterministic ids,     *)
(* the five semantic operations and their resolvers.                       *)
(*                                                                         *)
(* Python strings are sequences of one-character strings.  The character   *)
(* U+FB01 (LATIN SMALL LIGATURE FI) is written "U+FB01".                    *)
(***************************************************************************)
EXTENDS Integers, Sequences, FiniteSets, TLC

VARIABLES
    args,     \* the thread and grids the caller passes to op_*
    now,      \* the latest reading of the wall clock (datetime.utcnow())
    cur,      \* outcome of the latest op_* call
    prev,     \* outcome of the call before it
    cx,       \* canonical_value: the value given
    cx2,      \* canonical_value: the same logical value, maps built in another key order
    cy,       \* canonical_value(cx)
    cy2,      \* canonical_value(cx2)
    cz,       \* canonical_value(cy)
    bv1,      \* _build_output_matrix: first value array
    bv2,      \* _build_output_matrix: second value array
    bg1,      \* the grid built from bv1
    bg2,      \* the grid built from bv2
    ser,      \* Matrix.to_dict / Matrix.from_dict: the grid, its dict, the grid parsed back
    pipe,     \* the multiply, interpret, element-wise, add chain: grids so far, any error
    opid,     \* generate_operation_id: the arguments, a reordering, both ids
    rcall,    \* one Resolver.resolve call: the request, what the backend does, the result
    lru,      \* semmul.LRU: capacity, the OrderedDict, the keys used so far, the last call
    comb,     \* semmul.SemanticCombiner: its cache, the backend's answers, the last call
    graph,    \* the Neo4j graph CF14Neo4jExporter writes to, and the exports made
    pre       \* generate_thread_id / generate_operation_id: two argument triples, the strings hashed

vars == <<args, now, cur, prev, cx, cx2, cy, cy2, cz, bv1, bv2, bg1, bg2, ser, pipe, opid, rcall,
          lru, comb, graph, pre>>
opVars == <<args, now, cur, prev>>
canonVars == <<cx, cx2, cy, cy2, cz>>
buildVars == <<bv1, bv2, bg1, bg2>>
otherVars == <<ser, pipe, opid, rcall>>
moreVars == <<lru, comb, graph, pre>>

None == [t |-> "None"]

(***************************************************************************)
(* Bounds                                                                  *)
(***************************************************************************)
MaxStrLen == 2
MaxItems == 2
MaxDim == 2
MaxClock == 1

(***************************************************************************)
(* Strings                                                                 *)
(***************************************************************************)
LIG == "U+FB01"

\* the concatenation of a sequence of strings
RECURSIVE Concat(_)
Concat(ss) ==
    IF ss = <<>> THEN <<>>
    ELSE IF Len(ss) = 1 THEN ss[1]
    ELSE LET h == Len(ss) \div 2
         IN  Concat(SubSeq(ss, 1, h)) \o Concat(SubSeq(ss, h + 1, Len(ss)))

\* sep.join(ss)
Join(sep, ss) == Concat([i \in 1..Len(ss) |-> IF i = 1 THEN ss[i] ELSE sep \o ss[i]])

Digit(d) == CASE d = 0 -> "0" [] d = 1 -> "1" [] d = 2 -> "2" [] d = 3 -> "3"
              [] d = 4 -> "4" [] d = 5 -> "5" [] d = 6 -> "6" [] d = 7 -> "7"
              [] d = 8 -> "8" [] d = 9 -> "9"

RECURSIVE NatStr(_)
NatStr(n) == IF n < 10 THEN <<Digit(n)>> ELSE NatStr(n \div 10) \o <<Digit(n % 10)>>

\* str(n) of a Python int
IntStr(n) == IF n < 0 THEN <<"-">> \o NatStr(-n) ELSE NatStr(n)

\* The printable ASCII characters in code point order, from U+0020
Ascii ==
    <<" ", "!", "\"", "#", "$", "%", "&", "'", "(", ")", "*", "+", ",", "-", ".", "/",
      "0", "1", "2", "3", "4", "5", "6", "7", "8", "9", ":", ";", "<", "=", ">", "?",
      "@", "A", "B", "C", "D", "E", "F", "G", "H", "I", "J", "K", "L", "M", "N", "O",
      "P", "Q", "R", "S", "T", "U", "V", "W", "X", "Y", "Z", "[", "\\", "]", "^", "_",
      "U+0060", "a", "b", "c", "d", "e", "f", "g", "h", "i", "j", "k", "l", "m", "n", "o",
      "p", "q", "r", "s", "t", "u", "v", "w", "x", "y", "z", "{", "|", "}", "~">>

\* The characters outside ASCII that the program's strings hold, with their code points
NonAscii ==
    [c \in {"U+00D7", "U+2295", "U+2299", "U+2A02", "U+FB01"} |->
        CASE c = "U+00D7" -> 215 [] c = "U+2295" -> 8853 [] c = "U+2299" -> 8857
          [] c = "U+2A02" -> 10754 [] c = "U+FB01" -> 64257]

IsAscii(c) == c \notin DOMAIN NonAscii

\* fixed texts written as one token, with the character each starts with
Literals ==
    [c \in {"matrix_", "cell_", "op_", "sha256("} |->
        CASE c = "matrix_" -> "m" [] c = "cell_" -> "c" [] c = "op_" -> "o"
          [] c = "sha256(" -> "s"]

\* Unicode code point of a character (Python orders strings by code point)
CodePoint(c) ==
    IF c = "\t" THEN 9
    ELSE IF c = "\n" THEN 10
    ELSE IF c \in DOMAIN NonAscii THEN NonAscii[c]
    ELSE IF c \in DOMAIN Literals THEN 31 + (CHOOSE i \in 1..Len(Ascii) : Ascii[i] = Literals[c])
    ELSE 31 + (CHOOSE i \in 1..Len(Ascii) : Ascii[i] = c)

Min(S) == CHOOSE x \in S : \A y \in S : x <= y
Max(S) == CHOOSE x \in S : \A y \in S : x >= y

\* s < u of two Python strings
StrLess(s, u) ==
    LET n == IF Len(s) < Len(u) THEN Len(s) ELSE Len(u)
        diff == {i \in 1..n : s[i] # u[i]}
    IN  IF diff = {} THEN Len(s) < Len(u)
        ELSE CodePoint(s[Min(diff)]) < CodePoint(u[Min(diff)])

(***************************************************************************)
(* Python values handed to canonical_value                                 *)
(***************************************************************************)
PyStr(s) == [t |-> "str", s |-> s]
PyInt(n) == [t |-> "int", n |-> n]
PyBool(b) == [t |-> "bool", b |-> b]
PyList(elems) == [t |-> "list", elems |-> elems]
\* a dict keeps its items in construction (insertion) order
PyDict(items) == [t |-> "dict", items |-> items]
Item(k, v) == [k |-> k, v |-> v]

\* dict keys, character by character (json.dumps sorts them)
K_text == <<"t", "e", "x", "t">>
K_task == <<"t", "a", "s", "k">>
K_type == <<"t", "y", "p", "e">>
K_shape == <<"s", "h", "a", "p", "e">>
K_target_shape == <<"t", "a", "r", "g", "e", "t", "_">> \o K_shape
K_inputs == <<"i", "n", "p", "u", "t", "s">>

(***************************************************************************)
(* unicodedata.normalize("NFKC", s), re.sub(r"\s+", " ", s).strip()        *)
(***************************************************************************)
IsSpace(c) == c \in {" ", "\t", "\n"}

Compat(c) == IF c = LIG THEN <<"f", "i">> ELSE <<c>>

NFKC(s) == Concat([i \in 1..Len(s) |-> Compat(s[i])])

\* re.sub(r"\s+", " ", s): each run of whitespace becomes one space
CollapseSpace(s) ==
    Concat([i \in 1..Len(s) |->
              IF ~IsSpace(s[i]) THEN <<s[i]>>
              ELSE IF i > 1 /\ IsSpace(s[i - 1]) THEN <<>>
              ELSE <<" ">>])

\* s.strip()
Strip(s) ==
    LET solid == {i \in 1..Len(s) : ~IsSpace(s[i])}
    IN  IF solid = {} THEN <<>> ELSE SubSeq(s, Min(solid), Max(solid))

_normalize(s) == Strip(CollapseSpace(NFKC(s)))

(***************************************************************************)
(* json.dumps(value, sort_keys=..., ensure_ascii=False)                    *)
(***************************************************************************)
HexDigit(d) == IF d < 10 THEN Digit(d) ELSE <<"a", "b", "c", "d", "e", "f">>[d - 9]

\* "\uXXXX" of a code point of the basic plane
UEscape(n) ==
    <<"\\", "u", HexDigit(n \div 4096), HexDigit((n \div 256) % 16),
      HexDigit((n \div 16) % 16), HexDigit(n % 16)>>

JsonEscapeChar(c, ensure_ascii) ==
    CASE c = "\"" -> <<"\\", "\"">>
      [] c = "\\" -> <<"\\", "\\">>
      [] c = "\t" -> <<"\\", "t">>
      [] c = "\n" -> <<"\\", "n">>
      [] OTHER -> IF ensure_ascii /\ ~IsAscii(c) THEN UEscape(CodePoint(c)) ELSE <<c>>

JsonEscape(s, ensure_ascii) ==
    Concat([i \in 1..Len(s) |-> JsonEscapeChar(s[i], ensure_ascii)])

JsonString(s, ensure_ascii) == <<"\"">> \o JsonEscape(s, ensure_ascii) \o <<"\"">>

\* sorted(dct.items()): insertion sort by key
RECURSIVE InsertItem(_, _)
InsertItem(it, sorted) ==
    IF sorted = <<>> THEN <<it>>
    ELSE IF StrLess(it.k, Head(sorted).k) THEN <<it>> \o sorted
    ELSE <<Head(sorted)>> \o InsertItem(it, Tail(sorted))

RECURSIVE SortItems(_)
SortItems(items) ==
    IF items = <<>> THEN <<>> ELSE InsertItem(Head(items), SortItems(Tail(items)))

RECURSIVE JsonDumps(_, _, _)
JsonDumps(v, sort_keys, ensure_ascii) ==
    CASE v.t = "str" -> JsonString(v.s, ensure_ascii)
      [] v.t = "int" -> IntStr(v.n)
      [] v.t = "bool" -> IF v.b THEN <<"t", "r", "u", "e">> ELSE <<"f", "a", "l", "s", "e">>
      [] v.t = "None" -> <<"n", "u", "l", "l">>
      [] v.t = "list" ->
            <<"[">> \o Join(<<",", " ">>,
                            [i \in 1..Len(v.elems) |->
                                JsonDumps(v.elems[i], sort_keys, ensure_ascii)])
                    \o <<"]">>
      [] v.t = "dict" ->
            LET items == IF sort_keys THEN SortItems(v.items) ELSE v.items
            IN  <<"{">> \o Join(<<",", " ">>,
                                [i \in 1..Len(items) |->
                                    JsonString(items[i].k, ensure_ascii) \o <<":", " ">>
                                        \o JsonDumps(items[i].v, sort_keys, ensure_ascii)])
                        \o <<"}">>

\* str(value) of a value that is no str, dict or list
PyStrOf(v) ==
    CASE v.t = "int" -> IntStr(v.n)
      [] v.t = "bool" -> IF v.b THEN <<"T", "r", "u", "e">> ELSE <<"F", "a", "l", "s", "e">>
      [] v.t = "None" -> <<"N", "o", "n", "e">>

canonical_value(value) ==
    CASE value.t = "str" -> _normalize(value.s)
      [] value.t = "dict" -> JsonDumps(value, TRUE, FALSE)
      [] value.t = "list" -> JsonDumps(value, FALSE, FALSE)
      [] OTHER -> PyStrOf(value)

(***************************************************************************)
(* Values the canonicalizer is applied to                                  *)
(***************************************************************************)
Alphabet == {"a", " ", "\t", LIG}

StringsOver(chars, n) == UNION {[1..k -> chars] : k \in 0..n}

Texts == StringsOver(Alphabet, MaxStrLen)

\* values held inside maps and sequences
ElemValues ==
    {PyStr(<<"a">>), PyStr(<<" ", " ">>), PyStr(<<"a", " ">>), PyStr(<<LIG>>), PyInt(1)}

Keys == {<<"a">>, <<"b">>, <<"a", "b">>}

KeySeqs ==
    {ks \in UNION {[1..k -> Keys] : k \in 0..MaxItems} :
        \A i, j \in 1..Len(ks) : i # j => ks[i] # ks[j]}

DictsOf(vals) ==
    UNION {{PyDict([i \in 1..Len(ks) |-> Item(ks[i], f[i])]) : f \in [1..Len(ks) -> vals]} :
            ks \in KeySeqs}

ListsOf(vals) == {PyList(es) : es \in UNION {[1..k -> vals] : k \in 0..MaxItems}}

InnerDicts ==
    {PyDict(<<Item(<<"a">>, PyInt(1)), Item(<<"b">>, PyStr(<<"a">>))>>),
     PyDict(<<Item(<<"b">>, PyStr(<<"a">>)), Item(<<"a">>, PyInt(1))>>)}

NestedValues ==
    {PyDict(<<Item(<<"a">>, d)>>) : d \in InnerDicts}
    \cup {PyDict(<<Item(<<"b">>, PyList(<<d>>))>>) : d \in InnerDicts}
    \cup {PyList(<<d>>) : d \in InnerDicts}
    \cup {PyList(<<PyStr(<<"a">>), d>>) : d \in InnerDicts}

Scalars == {PyInt(n) : n \in -1..10} \cup {PyBool(TRUE), PyBool(FALSE), None}

CanonInputs ==
    {PyStr(s) : s \in Texts} \cup DictsOf(ElemValues) \cup ListsOf(ElemValues)
        \cup NestedValues \cup Scalars

\* Python's == on dicts ignores the order the keys were inserted in
Perms(n) == {p \in [1..n -> 1..n] : \A i, j \in 1..n : i # j => p[i] # p[j]}

SeqProduct(sets) ==
    {s \in [1..Len(sets) -> UNION {sets[i] : i \in 1..Len(sets)}] :
        \A i \in 1..Len(sets) : s[i] \in sets[i]}

RECURSIVE Reorderings(_)
Reorderings(v) ==
    CASE v.t = "dict" ->
            {PyDict([i \in 1..Len(v.items) |-> Item(v.items[p[i]].k, f[p[i]])]) :
                p \in Perms(Len(v.items)),
                f \in SeqProduct([i \in 1..Len(v.items) |-> Reorderings(v.items[i].v)])}
      [] v.t = "list" ->
            {PyList(es) : es \in SeqProduct([i \in 1..Len(v.elems) |-> Reorderings(v.elems[i])])}
      [] OTHER -> {v}

(***************************************************************************)
(* The canonicalizer applied once, then to its own result                  *)
(***************************************************************************)
InitCanon ==
    /\ cx \in CanonInputs
    /\ cx2 \in Reorderings(cx)
    /\ cy = None /\ cy2 = None /\ cz = None
    /\ args = None /\ now = 0 /\ cur = None /\ prev = None
    /\ bv1 = None /\ bv2 = None /\ bg1 = None /\ bg2 = None
    /\ ser = None /\ pipe = None /\ opid = None /\ rcall = None
    /\ lru = None /\ comb = None /\ graph = None /\ pre = None

Canonicalize ==
    /\ cy = None
    /\ cy' = PyStr(canonical_value(cx))
    /\ cy2' = PyStr(canonical_value(cx2))
    /\ UNCHANGED <<cx, cx2, cz>>
    /\ UNCHANGED opVars /\ UNCHANGED buildVars /\ UNCHANGED otherVars
    /\ UNCHANGED moreVars

Recanonicalize ==
    /\ cy # None /\ cz = None
    /\ cz' = PyStr(canonical_value(cy))
    /\ UNCHANGED <<cx, cx2, cy, cy2>>
    /\ UNCHANGED opVars /\ UNCHANGED buildVars /\ UNCHANGED otherVars
    /\ UNCHANGED moreVars

NextCanon == Canonicalize \/ Recanonicalize

SpecCanon == InitCanon /\ [][NextCanon]_vars

\* C8: canonical_value(canonical_value(x)) = canonical_value(x) for every accepted x
C8_CanonicalIdempotent == cz # None => cz = cy

\* C9: values that differ only in the construction order of map keys canonicalize identically
C9_KeyOrderInsensitive == cy # None => cy = cy2

(***************************************************************************)
(* Deterministic ids (core/ids.py).  hashlib.sha256(...).hexdigest()[:12]  *)
(* is taken to be collision-free: a digest is written as its pre-image.    *)
(***************************************************************************)
sha256_hex12(content) == <<"sha256(">> \o content \o <<")">>

generate_matrix_id(matrix_type, thread_id, sequence) ==
    LET content == matrix_type \o <<":">> \o thread_id \o <<":">> \o IntStr(sequence)
    IN  <<"matrix_">> \o matrix_type \o <<"_">> \o sha256_hex12(content)

\* a cell id that leaves the content out of the hash
generate_cell_id_NoContent(matrix_id, row, col, content) ==
    <<"cell_">> \o sha256_hex12(matrix_id \o <<":">> \o IntStr(row) \o <<":">> \o IntStr(col))

generate_cell_id(matrix_id, row, col, content) ==
    LET sorted_content == JsonDumps(content, TRUE, TRUE)
        combined == matrix_id \o <<":">> \o IntStr(row) \o <<":">> \o IntStr(col)
                        \o <<":">> \o sorted_content
    IN  <<"cell_">> \o sha256_hex12(combined)

\* sorted(input_ids): insertion sort of strings
RECURSIVE InsertStr(_, _)
InsertStr(x, sorted) ==
    IF sorted = <<>> THEN <<x>>
    ELSE IF StrLess(x, Head(sorted)) THEN <<x>> \o sorted
    ELSE <<Head(sorted)>> \o InsertStr(x, Tail(sorted))

RECURSIVE SortStrs(_)
SortStrs(ss) == IF ss = <<>> THEN <<>> ELSE InsertStr(Head(ss), SortStrs(Tail(ss)))

\* an operation id that joins the input ids in the order given
generate_operation_id_Unsorted(operation_type, input_ids, timestamp) ==
    LET inputs == Join(<<":">>, input_ids)
        content == operation_type \o <<":">> \o inputs \o <<":">> \o timestamp
    IN  <<"op_">> \o sha256_hex12(content)

generate_operation_id(operation_type, input_ids, timestamp) ==
    LET inputs == Join(<<":">>, SortStrs(input_ids))
        content == operation_type \o <<":">> \o inputs \o <<":">> \o timestamp
    IN  <<"op_">> \o sha256_hex12(content)

\* datetime.utcnow().isoformat() at clock reading t
isoformat(t) == <<"T">> \o IntStr(t)

(***************************************************************************)
(* Cell, Matrix, Operation (core/types.py)                                 *)
(***************************************************************************)
Cell(id, row, col, content) ==
    [id |-> id, row |-> row, col |-> col, content |-> content,
     modality |-> "unknown", provenance |-> PyDict(<<>>)]

Matrix(id, type, cells, dimensions, metadata) ==
    [id |-> id, type |-> type, cells |-> cells, dimensions |-> dimensions,
     metadata |-> metadata]

Operation(id, type, inputs, outputs, timestamp, metadata) ==
    [id |-> id, type |-> type, inputs |-> inputs, outputs |-> outputs,
     timestamp |-> timestamp, metadata |-> metadata]

(***************************************************************************)
(* _build_output_matrix (core/ops.py)                                      *)
(***************************************************************************)
\* values[r][c] of a 0-indexed position raises IndexError past the end of row r
\* a builder that appends the cells column by column
_build_output_matrix_ColumnMajor(thread, matrix_type, station, values, t) ==
    LET rows == Len(values)
        cols == IF values # <<>> THEN Len(values[1]) ELSE 0
        matrix_id == generate_matrix_id(matrix_type, thread, 1)
        cellAt(r, c) ==
            LET cell_content ==
                    PyDict(<<Item(K_text,
                                  PyStr(canonical_value(PyStr(values[r + 1][c + 1]))))>>)
            IN  Cell(generate_cell_id(matrix_id, r, c, cell_content), r, c, cell_content)
    IN  IF \E r \in 1..rows : Len(values[r]) < cols
        THEN [raised |-> "IndexError", matrix |-> None]
        ELSE [raised |-> "",
              matrix |->
                  Matrix(matrix_id, matrix_type,
                         [k \in 1..(rows * cols) |-> cellAt((k - 1) % rows, (k - 1) \div rows)],
                         <<rows, cols>>,
                         [station |-> station, timestamp |-> isoformat(t)])]

_build_output_matrix(thread, matrix_type, station, values, t) ==
    LET rows == Len(values)
        cols == IF values # <<>> THEN Len(values[1]) ELSE 0
        matrix_id == generate_matrix_id(matrix_type, thread, 1)
        cellAt(r, c) ==
            LET cell_content ==
                    PyDict(<<Item(K_text,
                                  PyStr(canonical_value(PyStr(values[r + 1][c + 1]))))>>)
            IN  Cell(generate_cell_id(matrix_id, r, c, cell_content), r, c, cell_content)
    IN  IF \E r \in 1..rows : Len(values[r]) < cols
        THEN [raised |-> "IndexError", matrix |-> None]
        ELSE [raised |-> "",
              matrix |->
                  Matrix(matrix_id, matrix_type,
                         [k \in 1..(rows * cols) |-> cellAt((k - 1) \div cols, (k - 1) % cols)],
                         <<rows, cols>>,
                         [station |-> station, timestamp |-> isoformat(t)])]

(***************************************************************************)
(* Resolvers (core/ops.py).  A resolver is EchoResolver, or some other     *)
(* implementation of the Resolver protocol that answers with `out`.        *)
(***************************************************************************)
Echo == [name |-> "echo"]
Other(out) == [name |-> "other", out |-> out]

\* a resolver that takes the first input's shape for "*"
EchoMultiplyShape_FirstInput(A, B) == A.dimensions

\* rows, cols of "*"
EchoMultiplyShape(A, B) == <<A.dimensions[1], B.dimensions[2]>>

\* a resolver that swaps rows and columns
EchoSameShape_Transposed(A) == <<A.dimensions[2], A.dimensions[1]>>

\* rows, cols of "+", "interpret" and the element-wise product: the first input's
EchoSameShape(A) == A.dimensions

\* a resolver that adds the dimensions instead of multiplying them
EchoCrossShape_Sum(A, B) ==
    <<A.dimensions[1] + B.dimensions[1], A.dimensions[2] + B.dimensions[2]>>

\* rows, cols of the cross-product
EchoCrossShape(A, B) ==
    <<A.dimensions[1] * B.dimensions[1], A.dimensions[2] * B.dimensions[2]>>

\* a resolver that interleaves the blocks: // and % exchanged
EchoCrossVal_Interleaved(A, B, r, c) ==
    LET ar == r % A.dimensions[1]
        ac == c % A.dimensions[2]
        br == r \div A.dimensions[1]
        bc == c \div A.dimensions[2]
    IN  <<"U+00D7", ":">> \o A.type \o <<"[">> \o IntStr(ar) \o <<",">>
            \o IntStr(ac) \o <<"]", "U+2A02">> \o B.type \o <<"[">>
            \o IntStr(br) \o <<",">> \o IntStr(bc) \o <<"]">>

\* val(r, c) of the cross-product
EchoCrossVal(A, B, r, c) ==
    LET ar == r \div B.dimensions[1]
        ac == c \div B.dimensions[2]
        br == r % B.dimensions[1]
        bc == c % B.dimensions[2]
    IN  <<"U+00D7", ":">> \o A.type \o <<"[">> \o IntStr(ar) \o <<",">>
            \o IntStr(ac) \o <<"]", "U+2A02">> \o B.type \o <<"[">>
            \o IntStr(br) \o <<",">> \o IntStr(bc) \o <<"]">>

\* a resolver that copies the first input's cell text into the value
EchoMultiplyVal_FromCells(A, B, r, c) ==
    <<"*", ":">> \o A.cells[1].content.items[1].v.s \o <<"[">> \o IntStr(r) \o <<",", ":", "]">>
        \o B.type \o <<"[", ":", ",">> \o IntStr(c) \o <<"]">>

\* val(r, c) of "*"
EchoMultiplyVal(A, B, r, c) ==
    <<"*", ":">> \o A.type \o <<"[">> \o IntStr(r) \o <<",", ":", "]">>
        \o B.type \o <<"[", ":", ",">> \o IntStr(c) \o <<"]">>

EchoResolver_resolve(op, inputs) ==
    CASE op = "*" ->
            LET A == inputs[1]
                B == inputs[2]
                shape == EchoMultiplyShape(A, B)
                val(r, c) == EchoMultiplyVal(A, B, r, c)
            IN  [raised |-> "", values |-> [r \in 1..shape[1] |-> [c \in 1..shape[2] |-> val(r - 1, c - 1)]]]
      [] op = "+" ->
            LET A == inputs[1]
                F == inputs[2]
                shape == EchoSameShape(A)
                val(r, c) == <<"+", ":">> \o A.type \o <<"[">> \o IntStr(r) \o <<",">>
                                 \o IntStr(c) \o <<"]", "U+2295">> \o F.type \o <<"[">>
                                 \o IntStr(r) \o <<",">> \o IntStr(c) \o <<"]">>
            IN  [raised |-> "", values |-> [r \in 1..shape[1] |-> [c \in 1..shape[2] |-> val(r - 1, c - 1)]]]
      [] op = "interpret" ->
            LET B == inputs[1]
                shape == EchoSameShape(B)
                val(r, c) == <<"i", "n", "t", "e", "r", "p", ":">> \o B.type \o <<"[">>
                                 \o IntStr(r) \o <<",">> \o IntStr(c) \o <<"]">>
            IN  [raised |-> "", values |-> [r \in 1..shape[1] |-> [c \in 1..shape[2] |-> val(r - 1, c - 1)]]]
      [] op = "U+2299" ->
            LET J == inputs[1]
                C == inputs[2]
                shape == EchoSameShape(J)
                val(r, c) == <<"U+2299", ":">> \o J.type \o <<"[">> \o IntStr(r) \o <<",">>
                                 \o IntStr(c) \o <<"]", "U+00D7">> \o C.type \o <<"[">>
                                 \o IntStr(r) \o <<",">> \o IntStr(c) \o <<"]">>
            IN  [raised |-> "", values |-> [r \in 1..shape[1] |-> [c \in 1..shape[2] |-> val(r - 1, c - 1)]]]
      [] op = "U+00D7" ->
            LET A == inputs[1]
                B == inputs[2]
                shape == EchoCrossShape(A, B)
                val(r, c) == EchoCrossVal(A, B, r, c)
            IN  [raised |-> "", values |-> [r \in 1..shape[1] |-> [c \in 1..shape[2] |-> val(r - 1, c - 1)]]]
      [] OTHER -> [raised |-> "ValueError", values |-> <<>>]

(***************************************************************************)
(* OpenAIResolver (core/ops.py).  The backend is outside the program: what *)
(* client.chat.completions.create does at each attempt is given as a list  *)
(* of responses, one per attempt.                                          *)
(***************************************************************************)
\* create() raises (connection, rate limit, ...)
APIError == [t |-> "raise"]

\* create() returns a message whose content json.loads parses into `json`
Content(json) == [t |-> "content", json |-> json]

\* content that json.loads rejects
InvalidJson == [t |-> "invalid"]

K_cells == <<"c", "e", "l", "l", "s">>

HasKey(d, k) == \E i \in 1..Len(d.items) : d.items[i].k = k

Get(d, k) == d.items[CHOOSE i \in 1..Len(d.items) : d.items[i].k = k].v

OpenAI(model, responses) == [name |-> "openai", model |-> model, responses |-> responses]

max_retries == 3

\* self.temperatures.get(op, 0.6)
temperatures(op) ==
    CASE op \in {"*", "U+2299", "U+00D7"} -> "0.7"
      [] op \in {"+", "interpret"} -> "0.5"
      [] OTHER -> "0.6"

\* the 2D array as the response gives it, before any cell is canonicalized:
\* result["cells"][r][c] for r in range(rows), c in range(cols), or [[result["text"]]]
OpenAIExtract(response) ==
    IF response.t = "raise" THEN [raised |-> "APIError", values |-> <<>>]
    ELSE IF response.json = InvalidJson THEN [raised |-> "JSONDecodeError", values |-> <<>>]
    ELSE IF HasKey(response.json, K_cells) /\ HasKey(response.json, K_shape)
    THEN IF \E r \in 1..Get(response.json, K_shape).elems[1].n :
                /\ Get(response.json, K_shape).elems[2].n > 0
                /\ \/ r > Len(Get(response.json, K_cells).elems)
                   \/ Get(response.json, K_shape).elems[2].n
                          > Len(Get(response.json, K_cells).elems[r].elems)
         THEN [raised |-> "IndexError", values |-> <<>>]
         ELSE [raised |-> "",
               values |-> [r \in 1..Get(response.json, K_shape).elems[1].n |->
                             [c \in 1..Get(response.json, K_shape).elems[2].n |->
                                 Get(response.json, K_cells).elems[r].elems[c]]]]
    ELSE IF HasKey(response.json, K_text)
    THEN [raised |-> "", values |-> <<<<Get(response.json, K_text)>>>>]
    ELSE [raised |-> "ValueError", values |-> <<>>]

\* canonical_value(...) applied to every cell of the array returned
OpenAICanonical(got) ==
    [raised |-> got.raised,
     values |-> [r \in 1..Len(got.values) |->
                   [c \in 1..Len(got.values[r]) |-> canonical_value(got.values[r][c])]]]

\* the body of the try block: the request, json.loads, the 2D array taken from the result
OpenAIAttempt(response) == OpenAICanonical(OpenAIExtract(response))

\* a loop that sleeps and goes on after the last attempt as well
OpenAIRetry_NoCeiling(responses, attempt) == attempt < max_retries

\* except Exception: if attempt < max_retries - 1: sleep, continue
OpenAIRetry(responses, attempt) == attempt < max_retries - 1

\* for attempt in range(max_retries), from `attempt` on; sleeps: the waits so far;
\* got: what the try block of this attempt did
RECURSIVE OpenAILoop(_, _, _, _)
OpenAILoop(responses, attempt, sleeps, got) ==
    IF got.raised = ""
    THEN [raised |-> "", values |-> got.values, attempts |-> attempt + 1, sleeps |-> sleeps]
    ELSE IF OpenAIRetry(responses, attempt)
    THEN OpenAILoop(responses, attempt + 1, Append(sleeps, 2 ^ attempt),
                    OpenAIAttempt(responses[attempt + 2]))
    ELSE [raised |-> "RuntimeError", values |-> <<>>, attempts |-> attempt + 1,
          sleeps |-> sleeps]

OpenAIResolver_resolve(self, op, inputs) ==
    [temperature |-> temperatures(op)]
        @@ OpenAILoop(self.responses, 0, <<>>, OpenAIAttempt(self.responses[1]))

\* what resolve() hands back to its caller: the exception, or the 2D array
ResolveReturn(r) == [raised |-> r.raised, values |-> r.values]

resolve(resolver, op, inputs) ==
    CASE resolver.name = "echo" -> EchoResolver_resolve(op, inputs)
      [] resolver.name = "openai" -> ResolveReturn(OpenAIResolver_resolve(resolver, op, inputs))
      [] OTHER -> [raised |-> "", values |-> resolver.out]

(***************************************************************************)
(* Prompts, request hash and the Operation record (core/ops.py)            *)
(***************************************************************************)
TypeAndShape(M) ==
    PyDict(<<Item(K_type, PyStr(M.type)),
             Item(K_shape, PyList(<<PyInt(M.dimensions[1]), PyInt(M.dimensions[2])>>))>>)

_prompt_multiply(A, B) ==
    [system |-> <<"CF14 semantic multiplication (*) ...">>,
     user |-> JsonDumps(PyDict(<<Item(K_task, PyStr(<<"C = A * B">>)),
                                 Item(<<"A">>, TypeAndShape(A)),
                                 Item(<<"B">>, TypeAndShape(B))>>), TRUE, TRUE)]

_prompt_add(A, F) ==
    [system |-> <<"CF14 semantic addition (+) ...">>,
     user |-> JsonDumps(PyDict(<<Item(K_task, PyStr(<<"D = A + F">>)),
                                 Item(<<"A">>, TypeAndShape(A)),
                                 Item(<<"F">>, TypeAndShape(F))>>), TRUE, TRUE)]

_prompt_interpret(B) ==
    [system |-> <<"Interpret/Truncate matrix into objectives. ...">>,
     user |-> JsonDumps(PyDict(<<Item(K_task, PyStr(<<"J = interpret(B)">>)),
                                 Item(<<"B">>, TypeAndShape(B))>>), TRUE, TRUE)]

_prompt_elementwise(J, C) ==
    [system |-> <<"CF14 element-wise multiplication ...">>,
     user |-> JsonDumps(PyDict(<<Item(K_task, PyStr(<<"F = J ", "U+2299", " C">>)),
                                 Item(<<"J">>, TypeAndShape(J)),
                                 Item(<<"C">>, TypeAndShape(C))>>), TRUE, TRUE)]

_prompt_cross(A, B) ==
    [system |-> <<"CF14 cross-product ...">>,
     user |-> JsonDumps(PyDict(<<Item(K_task, PyStr(<<"W = A ", "U+00D7", " B">>)),
                                 Item(<<"A">>, TypeAndShape(A)),
                                 Item(<<"B">>, TypeAndShape(B)),
                                 Item(K_target_shape,
                                      PyList(<<PyInt(A.dimensions[1] * B.dimensions[1]),
                                               PyInt(A.dimensions[2] * B.dimensions[2])>>))>>),
                        TRUE, TRUE)]

prompt_hash(system, user, context) ==
    <<"sha256(">> \o _normalize(system) \o <<"\n", "\n">> \o _normalize(user) \o <<"\n", "\n">>
        \o JsonDumps(context, TRUE, TRUE) \o <<")">>

Ids(inputs) == [i \in 1..Len(inputs) |-> inputs[i].id]

_op_record(kind, inputs, output, system_prompt, user_prompt, t) ==
    LET timestamp == isoformat(t)
        prompt_hash_val ==
            prompt_hash(system_prompt, user_prompt,
                        PyDict(<<Item(K_inputs,
                                      PyList([i \in 1..Len(inputs) |-> PyStr(inputs[i].id)]))>>))
    IN  Operation(generate_operation_id(<<kind>>, Ids(inputs), timestamp),
                  kind, Ids(inputs), <<output.id>>, timestamp,
                  [prompt_hash |-> prompt_hash_val,
                   model |-> [vendor |-> "dev", name |-> "echo", version |-> "0"]])

(***************************************************************************)
(* validate_matrix_dimensions (core/validate.py): the list of errors       *)
(***************************************************************************)
validate_matrix_dimensions(A, B, operation) ==
    CASE operation = "multiply" ->
            IF A.dimensions[2] # B.dimensions[1]
            THEN <<"multiply: columns of the first grid differ from rows of the second">>
            ELSE <<>>
      [] operation = "add" ->
            IF A.dimensions # B.dimensions
            THEN <<"add: the grids' dimensions differ">>
            ELSE <<>>
      [] OTHER -> <<>>

(***************************************************************************)
(* The public op_* functions (core/ops.py).  A call's outcome: what was    *)
(* passed, the steps it took, and either the exception raised or the       *)
(* (Matrix, Operation) pair returned.                                      *)
(***************************************************************************)
Outcome(kind, thread, inputs, resolver, raised, errors, events, asked, matrix, op) ==
    [t |-> "call", kind |-> kind, thread |-> thread, inputs |-> inputs,
     resolver |-> resolver, raised |-> raised, errors |-> errors, events |-> events,
     asked |-> asked, matrix |-> matrix, op |-> op]

\* one resolver.resolve(op=..., inputs=[...], ...) request
Request(op, inputs) == [op |-> op, inputs |-> inputs]

\* _op_record and return, or the exception of _build_output_matrix.  passed: the grids
\* the caller gave; inputs: the list handed to the resolver and to _op_record
ResolveBuildRecord_Built(kind, thread, passed, inputs, resolver, prompts, t, events, built) ==
    IF built.raised # ""
    THEN Outcome(kind, thread, passed, resolver, built.raised, <<>>,
                 events \o <<"resolve", "build">>, <<Request(kind, inputs)>>, None, None)
    ELSE Outcome(kind, thread, passed, resolver, "", <<>>,
                 events \o <<"resolve", "build", "record">>, <<Request(kind, inputs)>>,
                 built.matrix,
                 _op_record(kind, inputs, built.matrix, prompts.system, prompts.user, t))

\* _build_output_matrix on the values resolved, or the exception of resolver.resolve
ResolveBuildRecord_Resolved(kind, thread, passed, inputs, resolver, prompts, matrix_type, station, t, events, vals) ==
    IF vals.raised # ""
    THEN Outcome(kind, thread, passed, resolver, vals.raised, <<>>,
                 events \o <<"resolve">>, <<Request(kind, inputs)>>, None, None)
    ELSE ResolveBuildRecord_Built(kind, thread, passed, inputs, resolver, prompts, t, events,
                                  _build_output_matrix(thread, matrix_type, station,
                                                       vals.values, t))

\* resolver.resolve, _build_output_matrix, _op_record, return
ResolveBuildRecord(kind, thread, passed, inputs, resolver, prompts, matrix_type, station, t, events) ==
    ResolveBuildRecord_Resolved(kind, thread, passed, inputs, resolver, prompts, matrix_type,
                                station, t, events, resolve(resolver, kind, inputs))

\* op_multiply asking the resolver before it looks at the validator's errors
op_multiply_ResolveFirst(thread, A, B, resolver, t) ==
    LET errors == validate_matrix_dimensions(A, B, "multiply")
    IN  IF errors # <<>>
        THEN Outcome("*", thread, <<A, B>>, resolver, "ValueError", errors,
                     <<"resolve", "validate">>, <<Request("*", <<A, B>>)>>, None, None)
        ELSE ResolveBuildRecord("*", thread, <<A, B>>, <<A, B>>, resolver,
                                _prompt_multiply(A, B), <<"C">>, "requirements", t, <<>>)

op_multiply(thread, A, B, resolver, t) ==
    LET errors == validate_matrix_dimensions(A, B, "multiply")
    IN  IF errors # <<>>
        THEN Outcome("*", thread, <<A, B>>, resolver, "ValueError", errors,
                     <<"validate">>, <<>>, None, None)
        ELSE ResolveBuildRecord("*", thread, <<A, B>>, <<A, B>>, resolver,
                                _prompt_multiply(A, B), <<"C">>, "requirements", t,
                                <<"validate">>)

\* an op_interpret that relabels the grid it was given
op_interpret_Relabel(thread, B, resolver, t) ==
    ResolveBuildRecord("interpret", thread, <<[B EXCEPT !.type = <<"J">>]>>, <<B>>, resolver,
                       _prompt_interpret(B), <<"J">>, "objectives", t, <<>>)

op_interpret(thread, B, resolver, t) ==
    ResolveBuildRecord("interpret", thread, <<B>>, <<B>>, resolver, _prompt_interpret(B),
                       <<"J">>, "objectives", t, <<>>)

\* op_elementwise checking its inputs with the rule of multiplication
op_elementwise_MultiplyRule(thread, J, C, resolver, t) ==
    LET errors == validate_matrix_dimensions(J, C, "multiply")
    IN  IF errors # <<>>
        THEN Outcome("U+2299", thread, <<J, C>>, resolver, "ValueError", errors,
                     <<"validate">>, <<>>, None, None)
        ELSE ResolveBuildRecord("U+2299", thread, <<J, C>>, <<J, C>>, resolver,
                                _prompt_elementwise(J, C), <<"F">>, "objectives", t,
                                <<"validate">>)

op_elementwise(thread, J, C, resolver, t) ==
    LET errors == validate_matrix_dimensions(J, C, "add")
    IN  IF errors # <<>>
        THEN Outcome("U+2299", thread, <<J, C>>, resolver, "ValueError", errors,
                     <<"validate">>, <<>>, None, None)
        ELSE ResolveBuildRecord("U+2299", thread, <<J, C>>, <<J, C>>, resolver,
                                _prompt_elementwise(J, C), <<"F">>, "objectives", t,
                                <<"validate">>)

\* op_add handing the resolver its inputs in the other order
op_add_InputsSwapped(thread, A, F, resolver, t) ==
    LET errors == validate_matrix_dimensions(A, F, "add")
    IN  IF errors # <<>>
        THEN Outcome("+", thread, <<A, F>>, resolver, "ValueError", errors,
                     <<"validate">>, <<>>, None, None)
        ELSE ResolveBuildRecord("+", thread, <<A, F>>, <<F, A>>, resolver, _prompt_add(A, F),
                                <<"D">>, "objectives", t, <<"validate">>)

op_add(thread, A, F, resolver, t) ==
    LET errors == validate_matrix_dimensions(A, F, "add")
    IN  IF errors # <<>>
        THEN Outcome("+", thread, <<A, F>>, resolver, "ValueError", errors,
                     <<"validate">>, <<>>, None, None)
        ELSE ResolveBuildRecord("+", thread, <<A, F>>, <<A, F>>, resolver, _prompt_add(A, F),
                                <<"D">>, "objectives", t, <<"validate">>)

op_cross(thread, A, B, resolver, t) ==
    ResolveBuildRecord("U+00D7", thread, <<A, B>>, <<A, B>>, resolver, _prompt_cross(A, B),
                       <<"D">>, "assessment", t, <<>>)

\* the op_* function of a kind, applied to the same arguments again
Invoke(kind, thread, inputs, resolver, t) ==
    CASE kind = "*" -> op_multiply(thread, inputs[1], inputs[2], resolver, t)
      [] kind = "interpret" -> op_interpret(thread, inputs[1], resolver, t)
      [] kind = "U+2299" -> op_elementwise(thread, inputs[1], inputs[2], resolver, t)
      [] kind = "+" -> op_add(thread, inputs[1], inputs[2], resolver, t)
      [] kind = "U+00D7" -> op_cross(thread, inputs[1], inputs[2], resolver, t)

(***************************************************************************)
(* Callers: threads, input grids, the clock                                *)
(***************************************************************************)
Threads == {<<"t", "1">>, <<"t", ":", "2">>}

\* a grid without rows has no columns (len(values[0]) if values else 0)
Shapes == {d \in (0..MaxDim) \X (0..MaxDim) : d[1] = 0 => d[2] = 0}

InputGrid(type, shape) ==
    _build_output_matrix(<<"i", "n">>, type, "input",
                         [r \in 1..shape[1] |-> [c \in 1..shape[2] |-> <<"x">>]], 0).matrix

InputGrids(type) == {InputGrid(type, shape) : shape \in Shapes}

\* what a caller holds: a thread id and two grids, of type A and of type B
Args == [thread : Threads, A : InputGrids(<<"A">>), B : InputGrids(<<"B">>)]

Init ==
    /\ args \in Args
    /\ now = 0 /\ cur = None /\ prev = None
    /\ cx = None /\ cx2 = None /\ cy = None /\ cy2 = None /\ cz = None
    /\ bv1 = None /\ bv2 = None /\ bg1 = None /\ bg2 = None
    /\ ser = None /\ pipe = None /\ opid = None /\ rcall = None
    /\ lru = None /\ comb = None /\ graph = None /\ pre = None

\* datetime.utcnow(): some reading not before the latest one
Readings == now..MaxClock

Call_op_multiply(resolvers) ==
    /\ cur = None
    /\ \E resolver \in resolvers, t \in Readings :
          /\ cur' = op_multiply(args.thread, args.A, args.B, resolver, t)
          /\ now' = t
    /\ prev' = None
    /\ UNCHANGED args /\ UNCHANGED canonVars /\ UNCHANGED buildVars /\ UNCHANGED otherVars
    /\ UNCHANGED moreVars

Call_op_interpret(resolvers) ==
    /\ cur = None
    /\ \E resolver \in resolvers, t \in Readings :
          /\ cur' = op_interpret(args.thread, args.B, resolver, t)
          /\ now' = t
    /\ prev' = None
    /\ UNCHANGED args /\ UNCHANGED canonVars /\ UNCHANGED buildVars /\ UNCHANGED otherVars
    /\ UNCHANGED moreVars

Call_op_elementwise(resolvers) ==
    /\ cur = None
    /\ \E resolver \in resolvers, t \in Readings :
          /\ cur' = op_elementwise(args.thread, args.A, args.B, resolver, t)
          /\ now' = t
    /\ prev' = None
    /\ UNCHANGED args /\ UNCHANGED canonVars /\ UNCHANGED buildVars /\ UNCHANGED otherVars
    /\ UNCHANGED moreVars

Call_op_add(resolvers) ==
    /\ cur = None
    /\ \E resolver \in resolvers, t \in Readings :
          /\ cur' = op_add(args.thread, args.A, args.B, resolver, t)
          /\ now' = t
    /\ prev' = None
    /\ UNCHANGED args /\ UNCHANGED canonVars /\ UNCHANGED buildVars /\ UNCHANGED otherVars
    /\ UNCHANGED moreVars

Call_op_cross(resolvers) ==
    /\ cur = None
    /\ \E resolver \in resolvers, t \in Readings :
          /\ cur' = op_cross(args.thread, args.A, args.B, resolver, t)
          /\ now' = t
    /\ prev' = None
    /\ UNCHANGED args /\ UNCHANGED canonVars /\ UNCHANGED buildVars /\ UNCHANGED otherVars
    /\ UNCHANGED moreVars

\* the caller repeats its latest call: same function, thread, inputs and resolver
Repeat ==
    /\ cur # None /\ prev = None
    /\ \E t \in Readings :
          /\ cur' = Invoke(cur.kind, cur.thread, cur.inputs, cur.resolver, t)
          /\ now' = t
    /\ prev' = cur
    /\ UNCHANGED args /\ UNCHANGED canonVars /\ UNCHANGED buildVars /\ UNCHANGED otherVars
    /\ UNCHANGED moreVars

Next ==
    \/ Call_op_multiply({Echo})
    \/ Call_op_interpret({Echo})
    \/ Call_op_elementwise({Echo})
    \/ Call_op_add({Echo})
    \/ Call_op_cross({Echo})
    \/ Repeat

Spec == Init /\ [][Next]_vars

(***************************************************************************)
(* Properties of the operation algebra with EchoResolver                   *)
(***************************************************************************)
Called(kinds) == cur # None /\ cur.kind \in kinds

Returned == cur # None /\ cur.raised = "" /\ cur.matrix # None /\ cur.op # None

Aborted == cur # None /\ cur.raised # "" /\ cur.matrix = None /\ cur.op = None

ResolveCalls(events) == Cardinality({i \in 1..Len(events) : events[i] = "resolve"})

\* the grid's content hash: a digest of every cell's content in row-major order
ContentHash(m) ==
    sha256_hex12(Join(<<"\n">>, [i \in 1..Len(m.cells) |-> JsonDumps(m.cells[i].content, TRUE, TRUE)]))

CellIds(m) == [i \in 1..Len(m.cells) |-> m.cells[i].id]

\* C1: a call repeated with EchoResolver, the same thread and identical inputs yields the
\* same Grid id, the same content hash (cell contents and cell ids) and the same
\* Operation id, whatever the clock reads at each call
C1_Determinism ==
    (prev # None /\ prev.raised = "") =>
        /\ Returned
        /\ cur.matrix.id = prev.matrix.id
        /\ ContentHash(cur.matrix) = ContentHash(prev.matrix)
        /\ CellIds(cur.matrix) = CellIds(prev.matrix)
        /\ cur.op.id = prev.op.id

\* the errors the validator returns for a call of a validating kind
ValidatorErrors(call) ==
    validate_matrix_dimensions(call.inputs[1], call.inputs[2],
                               IF call.kind = "*" THEN "multiply" ELSE "add")

\* C2: in op_multiply, op_add and op_elementwise, when the validator returns errors the
\* call raises an error carrying them, resolver.resolve is not invoked, and no Grid or
\* Operation is returned
C2_ValidationPrecedesResolution ==
    (Called({"*", "+", "U+2299"}) /\ ValidatorErrors(cur) # <<>>) =>
        /\ Aborted
        /\ cur.raised = "ValueError"
        /\ cur.errors = ValidatorErrors(cur)
        /\ ResolveCalls(cur.events) = 0

C2_Witness ==
    /\ Called({"*"}) /\ cur.inputs[1].dimensions = <<2, 2>> /\ cur.inputs[2].dimensions = <<1, 2>>
    /\ Aborted /\ cur.events = <<"validate">>

\* the indices a cross-product value names: <<A's type, ar, ac, B's type, br, bc>>, read
\* from the text "x:A[ar,ac](x)B[br,bc]"
DigitValue(ch) == CHOOSE d \in 0..9 : Digit(d) = ch

CrossRefs(text) ==
    <<text[3], DigitValue(text[5]), DigitValue(text[7]),
      text[10], DigitValue(text[12]), DigitValue(text[14])>>

CellAt(m, r, c) == m.cells[r * m.dimensions[2] + c + 1]

\* C4: every cell W[r][c] of W = op_cross(A, B) derives from A[r // rows(B), c // cols(B)]
\* and B[r % rows(B), c % cols(B)]
C4_ExpandIndexLaw ==
    (Called({"U+00D7"}) /\ Returned) =>
        LET A == cur.inputs[1]
            B == cur.inputs[2]
            W == cur.matrix
        IN  \A r \in 0..(W.dimensions[1] - 1), c \in 0..(W.dimensions[2] - 1) :
                /\ CellAt(W, r, c).row = r /\ CellAt(W, r, c).col = c
                /\ CrossRefs(CellAt(W, r, c).content.items[1].v.s)
                      = <<"A", r \div B.dimensions[1], c \div B.dimensions[2],
                          "B", r % B.dimensions[1], c % B.dimensions[2]>>

\* 2x2 inputs: W[3][3] derives from A[1][1] and B[1][1], W[0][2] from A[0][1] and B[0][0]
C4_Witness ==
    /\ Called({"U+00D7"}) /\ Returned
    /\ cur.inputs[1].dimensions = <<2, 2>> /\ cur.inputs[2].dimensions = <<2, 2>>
    /\ CrossRefs(CellAt(cur.matrix, 3, 3).content.items[1].v.s) = <<"A", 1, 1, "B", 1, 1>>
    /\ CrossRefs(CellAt(cur.matrix, 0, 2).content.items[1].v.s) = <<"A", 0, 1, "B", 0, 0>>

ResolverOutputs ==
    UNION {[1..k -> UNION {[1..n -> {<<"v">>}] : n \in 0..MaxDim}] : k \in 0..MaxDim}

OtherResolvers == {Other(out) : out \in ResolverOutputs}

InitAny ==
    /\ args \in {a \in Args : a.thread = <<"t", "1">>}
    /\ now = MaxClock /\ cur = None /\ prev = None
    /\ cx = None /\ cx2 = None /\ cy = None /\ cy2 = None /\ cz = None
    /\ bv1 = None /\ bv2 = None /\ bg1 = None /\ bg2 = None
    /\ ser = None /\ pipe = None /\ opid = None /\ rcall = None
    /\ lru = None /\ comb = None /\ graph = None /\ pre = None

NextAny ==
    \/ Call_op_multiply(OtherResolvers)
    \/ Call_op_interpret(OtherResolvers)
    \/ Call_op_elementwise(OtherResolvers)
    \/ Call_op_add(OtherResolvers)
    \/ Call_op_cross(OtherResolvers)

SpecAny == InitAny /\ [][NextAny]_vars

\* the shape the operation kind and the input dimensions determine
ExpectedShape(kind, inputs) ==
    CASE kind = "*" -> <<inputs[1].dimensions[1], inputs[2].dimensions[2]>>
      [] kind = "U+00D7" -> <<inputs[1].dimensions[1] * inputs[2].dimensions[1],
                              inputs[1].dimensions[2] * inputs[2].dimensions[2]>>
      [] OTHER -> inputs[1].dimensions

Rectangular(values) == \A i, j \in 1..Len(values) : Len(values[i]) = Len(values[j])

ShapeOf(values) == <<Len(values), IF values = <<>> THEN 0 ELSE Len(values[1])>>

\* C3: if resolver.resolve returns a grid of another shape than the operation kind and the
\* input dimensions determine, or with rows of unequal length, the call raises and
\* returns no Grid or Operation
C3_ShapeMismatchIsHardError ==
    (cur # None /\ ResolveCalls(cur.events) > 0
        /\ (~Rectangular(cur.resolver.out)
              \/ ShapeOf(cur.resolver.out) # ExpectedShape(cur.kind, cur.inputs))) =>
        Aborted

(***************************************************************************)
(* _build_output_matrix on two value arrays of one shape that differ at    *)
(* one position                                                            *)
(***************************************************************************)
CellTexts == StringsOver({"a", " "}, MaxStrLen)

CellShapes == {d \in Shapes : d[1] > 0 /\ d[2] > 0}

BuildArgs(thread, matrix_type, values) ==
    [thread |-> thread, matrix_type |-> matrix_type, values |-> values]

InitBuild ==
    /\ \E thread \in Threads, shape \in CellShapes, u \in CellTexts, v \in CellTexts :
          \E i \in 1..shape[1], j \in 1..shape[2] :
              /\ u # v
              /\ bv1 = BuildArgs(thread, <<"C">>, [r \in 1..shape[1] |-> [c \in 1..shape[2] |-> u]])
              /\ bv2 = BuildArgs(thread, <<"C">>,
                                 [r \in 1..shape[1] |->
                                     [c \in 1..shape[2] |-> IF r = i /\ c = j THEN v ELSE u]])
    /\ bg1 = None /\ bg2 = None
    /\ args = None /\ now = 0 /\ cur = None /\ prev = None
    /\ cx = None /\ cx2 = None /\ cy = None /\ cy2 = None /\ cz = None
    /\ ser = None /\ pipe = None /\ opid = None /\ rcall = None
    /\ lru = None /\ comb = None /\ graph = None /\ pre = None

Build ==
    /\ bg1 = None
    /\ \E t \in Readings :
          /\ bg1' = _build_output_matrix(bv1.thread, bv1.matrix_type, "requirements",
                                         bv1.values, t).matrix
          /\ bg2' = _build_output_matrix(bv2.thread, bv2.matrix_type, "requirements",
                                         bv2.values, t).matrix
          /\ now' = t
    /\ UNCHANGED <<args, cur, prev, bv1, bv2>> /\ UNCHANGED canonVars /\ UNCHANGED otherVars
    /\ UNCHANGED moreVars

NextBuild == Build

SpecBuild == InitBuild /\ [][NextBuild]_vars

\* the positions at which the two grids' cell values differ
ChangedCells == {k \in 1..Len(bg1.cells) : bg1.cells[k].content # bg2.cells[k].content}

\* C10: for two grids of the same kind, thread and shape whose cell values differ at
\* exactly one position, the content hashes differ, the cell id at that position differs,
\* and every other cell has the same id in both grids
C10_IdStability ==
    (bg1 # None /\ Cardinality(ChangedCells) = 1) =>
        /\ bg1.id = bg2.id /\ bg1.dimensions = bg2.dimensions
        /\ ContentHash(bg1) # ContentHash(bg2)
        /\ \A k \in 1..Len(bg1.cells) :
              (bg1.cells[k].id # bg2.cells[k].id) <=> (k \in ChangedCells)

C10_Witness ==
    /\ bg1 # None /\ bg1.dimensions = <<2, 2>>
    /\ ChangedCells = {3}
    /\ bg1.cells[3].id # bg2.cells[3].id
    /\ \A k \in {1, 2, 4} : bg1.cells[k].id = bg2.cells[k].id

(***************************************************************************)
(* op_multiply run again on inputs a caller has rebuilt: the same or other *)
(* cell texts, under the same or another thread, sequence number and type  *)
(***************************************************************************)
MaxSeq == 2

\* a grid a caller constructs with the id of its place in a thread's sequence
NewGrid(type, thread, sequence, values) ==
    LET rows == Len(values)
        cols == IF values # <<>> THEN Len(values[1]) ELSE 0
        matrix_id == generate_matrix_id(type, thread, sequence)
        cellAt(r, c) ==
            LET cell_content == PyDict(<<Item(K_text, PyStr(values[r + 1][c + 1]))>>)
            IN  Cell(generate_cell_id(matrix_id, r, c, cell_content), r, c, cell_content)
    IN  Matrix(matrix_id, type,
               [k \in 1..(rows * cols) |-> cellAt((k - 1) \div cols, (k - 1) % cols)],
               <<rows, cols>>, [station |-> "input", timestamp |-> isoformat(0)])

Uniform(shape, text) == [r \in 1..shape[1] |-> [c \in 1..shape[2] |-> text]]

InputTexts == {<<"x">>, <<"y">>}

FirstTypes == {<<"A">>, <<"J">>}

\* what the caller holds: a thread, and grids of given place, type, shape and cell text
RerunArgs(thread, sequence, typeA, m, n, p, ua, ub) ==
    [thread |-> thread, sequence |-> sequence,
     A |-> NewGrid(typeA, thread, sequence, Uniform(<<m, n>>, ua)),
     B |-> NewGrid(<<"B">>, thread, sequence, Uniform(<<n, p>>, ub))]

InitRerun ==
    /\ \E thread \in Threads, typeA \in FirstTypes, ua \in InputTexts, ub \in InputTexts :
          \E m \in 1..MaxDim, n \in 1..MaxDim, p \in 1..MaxDim :
              args = RerunArgs(thread, 1, typeA, m, n, p, ua, ub)
    /\ now = MaxClock /\ cur = None /\ prev = None
    /\ cx = None /\ cx2 = None /\ cy = None /\ cy2 = None /\ cz = None
    /\ bv1 = None /\ bv2 = None /\ bg1 = None /\ bg2 = None
    /\ ser = None /\ pipe = None /\ opid = None /\ rcall = None
    /\ lru = None /\ comb = None /\ graph = None /\ pre = None

Combine ==
    /\ cur = None
    /\ cur' = op_multiply(args.thread, args.A, args.B, Echo, now)
    /\ UNCHANGED <<args, now, prev>>
    /\ UNCHANGED canonVars /\ UNCHANGED buildVars /\ UNCHANGED otherVars
    /\ UNCHANGED moreVars

\* the caller rebuilds its grids, keeping their shapes, and combines them again
Rerun ==
    /\ cur # None /\ prev = None
    /\ \E thread \in Threads, sequence \in 1..MaxSeq, typeA \in FirstTypes,
          ua \in InputTexts, ub \in InputTexts :
          /\ args' = RerunArgs(thread, sequence, typeA, args.A.dimensions[1],
                               args.A.dimensions[2], args.B.dimensions[2], ua, ub)
          /\ cur' = op_multiply(args'.thread, args'.A, args'.B, Echo, now)
    /\ prev' = cur
    /\ UNCHANGED now
    /\ UNCHANGED canonVars /\ UNCHANGED buildVars /\ UNCHANGED otherVars
    /\ UNCHANGED moreVars

NextRerun == Combine \/ Rerun

SpecRerun == InitRerun /\ [][NextRerun]_vars

Contents(m) == [i \in 1..Len(m.cells) |-> m.cells[i].content]

SameContents(m1, m2) == m1.dimensions = m2.dimensions /\ Contents(m1) = Contents(m2)

BothRan == prev # None /\ prev.raised = "" /\ cur.raised = ""

\* the second run's inputs carry the first run's cell contents and types under other ids
FreshIds ==
    /\ \A i \in 1..2 : /\ cur.inputs[i].id # prev.inputs[i].id
                        /\ cur.inputs[i].type = prev.inputs[i].type
                        /\ SameContents(cur.inputs[i], prev.inputs[i])
    /\ (cur.thread # prev.thread \/ args.sequence > 1)

\* C11: op_multiply with EchoResolver run again on inputs that carry the same cell
\* contents under fresh grid ids (a new thread, or a later sequence number in the same
\* thread) returns a grid with the same cell contents and content hash as the first run
\* and a different grid id
C11_PositionalIdVsContentHash ==
    (BothRan /\ FreshIds) =>
        /\ Contents(cur.matrix) = Contents(prev.matrix)
        /\ ContentHash(cur.matrix) = ContentHash(prev.matrix)
        /\ cur.matrix.id # prev.matrix.id

\* C12 as stated: two op_multiply calls with EchoResolver whose input grids have the same
\* cell contents return the same output values, whatever the grids' ids, types, thread
\* or sequence numbers
C12_ValuesFromContentsOnly ==
    (BothRan /\ \A i \in 1..2 : SameContents(cur.inputs[i], prev.inputs[i])) =>
        Contents(cur.matrix) = Contents(prev.matrix)

\* C12 amended: the output values of op_multiply with EchoResolver are determined by the
\* input grids' types and dimensions; two calls whose inputs agree in type and dimensions
\* return the same values whatever the inputs' ids, thread, sequence numbers and cell
\* contents
C12_ValuesFromTypesAndShapes ==
    (BothRan /\ \A i \in 1..2 : /\ cur.inputs[i].type = prev.inputs[i].type
                                  /\ cur.inputs[i].dimensions = prev.inputs[i].dimensions) =>
        Contents(cur.matrix) = Contents(prev.matrix)

\* a second run on 1x1 inputs of the same types with other ids and other cell texts
C12_Witness ==
    /\ BothRan
    /\ \A i \in 1..2 : /\ cur.inputs[i].type = prev.inputs[i].type
                        /\ cur.inputs[i].dimensions = <<1, 1>>
                        /\ prev.inputs[i].dimensions = <<1, 1>>
                        /\ cur.inputs[i].id # prev.inputs[i].id
                        /\ Contents(cur.inputs[i]) # Contents(prev.inputs[i])
    /\ Contents(cur.matrix) = Contents(prev.matrix)
    /\ Len(cur.matrix.cells) = 1

(***************************************************************************)
(* Serialization (core/types.py): Cell.to_dict / from_dict and             *)
(* Matrix.to_dict / from_dict.  An enum member is written as its value; a  *)
(* dict is a record of its keys.                                           *)
(***************************************************************************)
MatrixTypes == {<<"A">>, <<"B">>, <<"C">>, <<"D">>, <<"F">>, <<"J">>}

Modalities == {"axiom", "theory", "concept", "process", "instance", "value", "unknown"}

Cell_to_dict(self) ==
    [id |-> self.id, row |-> self.row, col |-> self.col, content |-> self.content,
     modality |-> PyStr(self.modality), provenance |-> self.provenance]

\* a parse that gives every cell the default modality
Cell_from_dict_DefaultModality(data) ==
    [raised |-> "",
     cell |-> [id |-> data.id, row |-> data.row, col |-> data.col, content |-> data.content,
               modality |-> "unknown", provenance |-> data.provenance]]

\* Modality(data.get("modality", "unknown")), data.get("provenance", {})
Cell_from_dict(data) ==
    LET modality == IF "modality" \in DOMAIN data THEN data.modality ELSE PyStr("unknown")
    IN  IF modality.s \notin Modalities
        THEN [raised |-> "ValueError", cell |-> None]
        ELSE [raised |-> "",
              cell |-> [id |-> data.id, row |-> data.row, col |-> data.col,
                        content |-> data.content, modality |-> modality.s,
                        provenance |-> IF "provenance" \in DOMAIN data THEN data.provenance
                                       ELSE PyDict(<<>>)]]

Matrix_to_dict(self) ==
    [id |-> self.id, type |-> PyStr(self.type),
     cells |-> [i \in 1..Len(self.cells) |-> Cell_to_dict(self.cells[i])],
     dimensions |-> PyList(<<PyInt(self.dimensions[1]), PyInt(self.dimensions[2])>>),
     metadata |-> self.metadata]

\* MatrixType(data["type"]), tuple(data["dimensions"]), data.get("metadata", {})
Matrix_from_dict(data) ==
    LET cells == [i \in 1..Len(data.cells) |-> Cell_from_dict(data.cells[i])]
    IN  IF data.type.s \notin MatrixTypes \/ \E i \in 1..Len(cells) : cells[i].raised # ""
        THEN [raised |-> "ValueError", matrix |-> None]
        ELSE [raised |-> "",
              matrix |-> Matrix(data.id, data.type.s, [i \in 1..Len(cells) |-> cells[i].cell],
                                <<data.dimensions.elems[1].n, data.dimensions.elems[2].n>>,
                                IF "metadata" \in DOMAIN data THEN data.metadata
                                ELSE PyDict(<<>>))]

\* provenance dicts a caller attaches to cells
Provenances == {PyDict(<<>>), PyDict(<<Item(<<"s", "r", "c">>, PyStr(<<"a">>))>>)}

\* a constructed grid: built from a value array, its cells then given a modality and a
\* provenance
Constructed(thread, matrix_type, values, modality, provenance) ==
    LET built == _build_output_matrix(thread, matrix_type, "requirements", values, 0).matrix
    IN  [built EXCEPT !.cells = [i \in 1..Len(built.cells) |->
                                    [built.cells[i] EXCEPT !.modality = modality,
                                                           !.provenance = provenance]]]

InitSerial ==
    /\ \E thread \in Threads, matrix_type \in MatrixTypes, shape \in Shapes, u \in CellTexts,
          modality \in {"unknown", "axiom"}, provenance \in Provenances :
          ser = [m |-> Constructed(thread, matrix_type, Uniform(shape, u), modality,
                                   provenance),
                 d |-> None, back |-> None]
    /\ args = None /\ now = 0 /\ cur = None /\ prev = None
    /\ cx = None /\ cx2 = None /\ cy = None /\ cy2 = None /\ cz = None
    /\ bv1 = None /\ bv2 = None /\ bg1 = None /\ bg2 = None
    /\ pipe = None /\ opid = None /\ rcall = None
    /\ lru = None /\ comb = None /\ graph = None /\ pre = None

Serialize ==
    /\ ser.d = None
    /\ ser' = [ser EXCEPT !.d = Matrix_to_dict(ser.m)]
    /\ UNCHANGED <<pipe, opid, rcall>>
    /\ UNCHANGED opVars /\ UNCHANGED canonVars /\ UNCHANGED buildVars
    /\ UNCHANGED moreVars

Parse ==
    /\ ser.d # None /\ ser.back = None
    /\ ser' = [ser EXCEPT !.back = Matrix_from_dict(ser.d)]
    /\ UNCHANGED <<pipe, opid, rcall>>
    /\ UNCHANGED opVars /\ UNCHANGED canonVars /\ UNCHANGED buildVars
    /\ UNCHANGED moreVars

NextSerial == Serialize \/ Parse

SpecSerial == InitSerial /\ [][NextSerial]_vars

\* C13: for every constructed grid m, an empty grid and a 1x1 grid included,
\* Matrix.from_dict(Matrix.to_dict(m)) = m: id, type, every cell's id, row, col, content,
\* modality and provenance, the dimensions and the metadata are all equal
C13_RoundTrip ==
    (ser # None /\ ser.back # None) => (ser.back.raised = "" /\ ser.back.matrix = ser.m)

\* an empty grid and a 1x1 grid with a non-default modality have both made the round trip
C13_Witness ==
    /\ ser # None /\ ser.back # None /\ ser.back.raised = ""
    /\ ser.m.dimensions = <<1, 1>> /\ ser.m.cells[1].modality = "axiom"
    /\ ser.d.dimensions = PyList(<<PyInt(1), PyInt(1)>>)
    /\ ser.d.cells[1].modality = PyStr("axiom")
    /\ ser.back.matrix.cells = ser.m.cells

C13_WitnessEmpty ==
    /\ ser # None /\ ser.back # None /\ ser.back.raised = ""
    /\ ser.m.dimensions = <<0, 0>> /\ ser.m.cells = <<>> /\ ser.back.matrix = ser.m

(***************************************************************************)
(* The chain of test_basic_operations (test_implementation.py): multiply,  *)
(* interpret, element-wise, add, in one thread with EchoResolver.  The     *)
(* first exception ends the chain.                                         *)
(***************************************************************************)
InitPipeline ==
    /\ \E thread \in Threads, shape \in Shapes :
          pipe = [thread |-> thread,
                  A |-> InputGrid(<<"A">>, shape),
                  B |-> InputGrid(<<"B">>, <<shape[2], shape[2]>>),
                  C |-> None, J |-> None, F |-> None, D |-> None,
                  step |-> 0, raised |-> ""]
    /\ now = 0
    /\ args = None /\ cur = None /\ prev = None
    /\ cx = None /\ cx2 = None /\ cy = None /\ cy2 = None /\ cz = None
    /\ bv1 = None /\ bv2 = None /\ bg1 = None /\ bg2 = None
    /\ ser = None /\ opid = None /\ rcall = None
    /\ lru = None /\ comb = None /\ graph = None /\ pre = None

\* the chain after a call that put its grid in field `out`
After(call, C, J, F, D) ==
    IF call.raised # ""
    THEN [pipe EXCEPT !.raised = call.raised]
    ELSE [pipe EXCEPT !.C = C, !.J = J, !.F = F, !.D = D, !.step = pipe.step + 1]

Pipeline_multiply ==
    /\ pipe.step = 0 /\ pipe.raised = ""
    /\ \E t \in Readings :
          LET call == op_multiply(pipe.thread, pipe.A, pipe.B, Echo, t)
          IN  /\ pipe' = After(call, call.matrix, None, None, None)
              /\ now' = t
    /\ UNCHANGED <<args, cur, prev, ser, opid, rcall>>
    /\ UNCHANGED canonVars /\ UNCHANGED buildVars
    /\ UNCHANGED moreVars

Pipeline_interpret ==
    /\ pipe.step = 1 /\ pipe.raised = ""
    /\ \E t \in Readings :
          LET call == op_interpret(pipe.thread, pipe.C, Echo, t)
          IN  /\ pipe' = After(call, pipe.C, call.matrix, None, None)
              /\ now' = t
    /\ UNCHANGED <<args, cur, prev, ser, opid, rcall>>
    /\ UNCHANGED canonVars /\ UNCHANGED buildVars
    /\ UNCHANGED moreVars

Pipeline_elementwise ==
    /\ pipe.step = 2 /\ pipe.raised = ""
    /\ \E t \in Readings :
          LET call == op_elementwise(pipe.thread, pipe.J, pipe.C, Echo, t)
          IN  /\ pipe' = After(call, pipe.C, pipe.J, call.matrix, None)
              /\ now' = t
    /\ UNCHANGED <<args, cur, prev, ser, opid, rcall>>
    /\ UNCHANGED canonVars /\ UNCHANGED buildVars
    /\ UNCHANGED moreVars

Pipeline_add ==
    /\ pipe.step = 3 /\ pipe.raised = ""
    /\ \E t \in Readings :
          LET call == op_add(pipe.thread, pipe.A, pipe.F, Echo, t)
          IN  /\ pipe' = After(call, pipe.C, pipe.J, pipe.F, call.matrix)
              /\ now' = t
    /\ UNCHANGED <<args, cur, prev, ser, opid, rcall>>
    /\ UNCHANGED canonVars /\ UNCHANGED buildVars
    /\ UNCHANGED moreVars

NextPipeline ==
    Pipeline_multiply \/ Pipeline_interpret \/ Pipeline_elementwise \/ Pipeline_add

SpecPipeline == InitPipeline /\ [][NextPipeline]_vars

\* the grids the chain has produced so far
Produced == {g \in {pipe.C, pipe.J, pipe.F, pipe.D} : g # None}

OperationKinds == {"*", "+", "U+2299", "U+00D7", "interpret"}

\* grid ids, and short ids of which one is a prefix of, or holds the separator of, others
InputIds ==
    {generate_matrix_id(<<"A">>, <<"t", "1">>, 1), generate_matrix_id(<<"B">>, <<"t", "1">>, 1),
     <<"a">>, <<"a", "b">>, <<"a", ":", "b">>}

Permuted(ids, p) == [i \in 1..Len(ids) |-> ids[p[i]]]

InitOpId ==
    /\ \E kind \in OperationKinds, t \in 0..MaxClock, k \in 0..MaxItems :
          \E ids \in [1..k -> InputIds], p \in Perms(k) :
              opid = [operation_type |-> <<kind>>, input_ids |-> ids,
                      reordered |-> Permuted(ids, p), timestamp |-> isoformat(t),
                      id1 |-> None, id2 |-> None]
    /\ args = None /\ now = 0 /\ cur = None /\ prev = None
    /\ cx = None /\ cx2 = None /\ cy = None /\ cy2 = None /\ cz = None
    /\ bv1 = None /\ bv2 = None /\ bg1 = None /\ bg2 = None
    /\ ser = None /\ pipe = None /\ rcall = None
    /\ lru = None /\ comb = None /\ graph = None /\ pre = None

GenerateIds ==
    /\ opid.id1 = None
    /\ opid' = [opid EXCEPT
                   !.id1 = generate_operation_id(opid.operation_type, opid.input_ids,
                                                 opid.timestamp),
                   !.id2 = generate_operation_id(opid.operation_type, opid.reordered,
                                                 opid.timestamp)]
    /\ UNCHANGED <<ser, pipe, rcall>>
    /\ UNCHANGED opVars /\ UNCHANGED canonVars /\ UNCHANGED buildVars
    /\ UNCHANGED moreVars

NextOpId == GenerateIds

SpecOpId == InitOpId /\ [][NextOpId]_vars

\* C15: for a fixed operation kind and timestamp, generate_operation_id returns the same
\* id for every permutation of the same list of input ids
C15_InputOrderIndependent ==
    (opid # None /\ opid.id1 # None) => opid.id1 = opid.id2

\* two different grid ids passed in both orders have got one operation id
C15_Witness ==
    /\ opid # None /\ opid.id1 # None
    /\ Len(opid.input_ids) = 2 /\ opid.input_ids[1] # opid.input_ids[2]
    /\ opid.reordered = <<opid.input_ids[2], opid.input_ids[1]>>
    /\ opid.id1 = opid.id2

(***************************************************************************)
(* One Resolver.resolve call: EchoResolver, or OpenAIResolver against a    *)
(* backend that fails, answers with JSON of one shape or another, or with  *)
(* text                                                                    *)
(***************************************************************************)
CellsPayload(rows, cols, shape) ==
    Content(PyDict(<<Item(K_shape, PyList(<<PyInt(shape[1]), PyInt(shape[2])>>)),
                     Item(K_cells,
                          PyList([r \in 1..rows |->
                                    PyList([c \in 1..cols |-> PyStr(<<"v">>)])]))>>))

TextPayload == Content(PyDict(<<Item(K_text, PyStr(<<"v">>))>>))

Responses ==
    {APIError, Content(InvalidJson), Content(PyDict(<<>>)), TextPayload,
     CellsPayload(1, 1, <<1, 1>>), CellsPayload(2, 2, <<2, 2>>),
     CellsPayload(1, 1, <<2, 2>>), CellsPayload(2, 2, <<1, 1>>)}

\* what the backend does at each attempt; were there one attempt more, it would succeed
Scripts == {rs \o <<TextPayload>> : rs \in [1..max_retries -> Responses]}

Models == {"gpt-4o", "gpt-4o-mini"}

\* an operation kind outside the five
UnknownKinds == {"?"}

\* inputs=[...] as the op_* functions pass them: one grid for interpret, else two
InputsFor(op, shape) ==
    IF op = "interpret" THEN <<InputGrid(<<"B">>, shape)>>
    ELSE <<InputGrid(<<"A">>, shape), InputGrid(<<"B">>, shape)>>

InitResolve ==
    /\ \E resolver \in {Echo} \cup {OpenAI("gpt-4o", rs) : rs \in Scripts},
          op \in OperationKinds \cup UnknownKinds, shape \in {<<1, 1>>, <<2, 2>>} :
          rcall = [resolver |-> resolver, op |-> op, inputs |-> InputsFor(op, shape),
                   result |-> None]
    /\ args = None /\ now = 0 /\ cur = None /\ prev = None
    /\ cx = None /\ cx2 = None /\ cy = None /\ cy2 = None /\ cz = None
    /\ bv1 = None /\ bv2 = None /\ bg1 = None /\ bg2 = None
    /\ ser = None /\ pipe = None /\ opid = None
    /\ lru = None /\ comb = None /\ graph = None /\ pre = None

Resolve_Echo ==
    /\ rcall.result = None /\ rcall.resolver.name = "echo"
    /\ rcall' = [rcall EXCEPT !.result = EchoResolver_resolve(rcall.op, rcall.inputs)]
    /\ UNCHANGED <<ser, pipe, opid>>
    /\ UNCHANGED opVars /\ UNCHANGED canonVars /\ UNCHANGED buildVars
    /\ UNCHANGED moreVars

Resolve_OpenAI ==
    /\ rcall.result = None /\ rcall.resolver.name = "openai"
    /\ rcall' = [rcall EXCEPT
                    !.result = OpenAIResolver_resolve(rcall.resolver, rcall.op, rcall.inputs)]
    /\ UNCHANGED <<ser, pipe, opid>>
    /\ UNCHANGED opVars /\ UNCHANGED canonVars /\ UNCHANGED buildVars
    /\ UNCHANGED moreVars

NextResolve == Resolve_Echo \/ Resolve_OpenAI

SpecResolve == InitResolve /\ [][NextResolve]_vars

OpenAIDone == rcall # None /\ rcall.result # None /\ rcall.resolver.name = "openai"

\* the attempts, of the first three, at which the backend's answer is usable
Usable ==
    {i \in 1..3 : OpenAIAttempt(rcall.resolver.responses[i]).raised = ""}

\* C16: one OpenAIResolver.resolve call makes at most 3 backend attempts, returns the
\* result of the first attempt that succeeds and makes no further attempt, sleeps
\* 2^attempt seconds (1, then 2) between attempts only, and raises RuntimeError exactly
\* when all 3 attempts fail
C16_BoundedRetry ==
    OpenAIDone =>
        LET result == rcall.result
        IN  /\ result.attempts \in 1..3
            /\ result.sleeps = [i \in 1..(result.attempts - 1) |-> 2 ^ (i - 1)]
            /\ (result.raised = "RuntimeError") <=> (Usable = {})
            /\ Usable # {} =>
                  /\ result.raised = ""
                  /\ result.attempts = Min(Usable)
                  /\ result.values
                        = OpenAIAttempt(rcall.resolver.responses[Min(Usable)]).values
            /\ Usable = {} => result.attempts = 3 /\ result.sleeps = <<1, 2>>

\* two failed attempts, then a third that succeeds after sleeps of 1 and 2 seconds
C16_Witness ==
    /\ OpenAIDone /\ Usable = {3}
    /\ rcall.result.raised = "" /\ rcall.result.attempts = 3
    /\ rcall.result.sleeps = <<1, 2>> /\ rcall.result.values = <<<<<<"v">>>>>>

\* three failed attempts end in RuntimeError without a third sleep
C16_WitnessExhausted ==
    /\ OpenAIDone /\ Usable = {}
    /\ rcall.result.raised = "RuntimeError" /\ rcall.result.attempts = 3
    /\ rcall.result.sleeps = <<1, 2>>

\* C17: OpenAIResolver.resolve returns a value array only if its shape is the shape
\* expected for the kind and the inputs; a payload of another shape, a 'shape' field
\* that disagrees and a bare 'text' payload for an expected shape other than 1x1
\* included, ends in an error
C17_OpenAIRejectsShapeMismatch ==
    (OpenAIDone /\ rcall.op \in OperationKinds /\ rcall.result.raised = "") =>
        /\ Rectangular(rcall.result.values)
        /\ ShapeOf(rcall.result.values) = ExpectedShape(rcall.op, rcall.inputs)

\* C18: EchoResolver.resolve and OpenAIResolver.resolve both raise whenever op is not
\* one of the five kinds
C18_UnknownKindIsError ==
    (rcall # None /\ rcall.result # None /\ rcall.op \notin OperationKinds) =>
        rcall.result.raised # ""

(***************************************************************************)
(* The op_* functions with either resolver of core/ops.py: EchoResolver,   *)
(* or OpenAIResolver for some model against a backend that does the same   *)
(* thing at every attempt                                                  *)
(***************************************************************************)
Backends ==
    {Echo} \cup {OpenAI(model, [i \in 1..(max_retries + 1) |-> p]) :
                    model \in Models, p \in Responses}

InitBackend ==
    /\ args \in {a \in Args : a.thread = <<"t", "1">>}
    /\ now = MaxClock /\ cur = None /\ prev = None
    /\ cx = None /\ cx2 = None /\ cy = None /\ cy2 = None /\ cz = None
    /\ bv1 = None /\ bv2 = None /\ bg1 = None /\ bg2 = None
    /\ ser = None /\ pipe = None /\ opid = None /\ rcall = None
    /\ lru = None /\ comb = None /\ graph = None /\ pre = None

NextBackend ==
    \/ Call_op_multiply(Backends)
    \/ Call_op_interpret(Backends)
    \/ Call_op_elementwise(Backends)
    \/ Call_op_add(Backends)
    \/ Call_op_cross(Backends)

SpecBackend == InitBackend /\ [][NextBackend]_vars

\* the call is of a kind that runs no validator, or the validator returned no error
ValidationPassed ==
    cur # None /\ (cur.kind \in {"*", "+", "U+2299"} => ValidatorErrors(cur) = <<>>)

\* the place of a step in validate, resolve, build, record
Rank(e) ==
    CASE e = "validate" -> 1 [] e = "resolve" -> 2 [] e = "build" -> 3 [] e = "record" -> 4

\* C19: every op_* call that passes validation calls resolver.resolve exactly once, for
\* the whole output grid, with the inputs in the order the caller passed them, after
\* validation and before the output Grid and the Operation record are built
C19_OneResolverCall ==
    ValidationPassed =>
        /\ ResolveCalls(cur.events) = 1
        /\ cur.asked = <<Request(cur.kind, cur.inputs)>>
        /\ \A i, j \in 1..Len(cur.events) : i < j => Rank(cur.events[i]) < Rank(cur.events[j])
        /\ (cur.kind \in {"*", "+", "U+2299"}) => cur.events[1] = "validate"
        /\ Returned => SubSeq(cur.events, Len(cur.events) - 2, Len(cur.events))
                          = <<"resolve", "build", "record">>

\* op_add on a 2x2 grid of type A and a 2x2 grid of type B: validated, the resolver asked
\* once for [A, B], then the grid and the record built
C19_Witness ==
    /\ Called({"+"}) /\ Returned
    /\ cur.inputs[1].type = <<"A">> /\ cur.inputs[2].type = <<"B">>
    /\ cur.inputs[1].dimensions = <<2, 2>>
    /\ cur.asked = <<Request("+", cur.inputs)>>
    /\ cur.events = <<"validate", "resolve", "build", "record">>

\* C20: the Operation an op_* call returns has the call's kind as type, the input grids'
\* ids as inputs, exactly the returned grid's id as outputs, and a model descriptor that
\* names the resolver that produced the values: OpenAI and its model for OpenAIResolver,
\* the synthetic resolver for EchoResolver
C20_ProvenanceNamesBackend ==
    (cur # None /\ Returned) =>
        /\ cur.op.type = cur.kind
        /\ cur.op.inputs = Ids(cur.inputs)
        /\ cur.op.outputs = <<cur.matrix.id>>
        /\ cur.resolver.name = "echo" => cur.op.metadata.model.name = "echo"
        /\ cur.resolver.name = "openai" =>
              /\ cur.op.metadata.model.vendor = "openai"
              /\ cur.op.metadata.model.name = cur.resolver.model

(***************************************************************************)
(* One op_* function called twice on the same input grids, under the same  *)
(* thread or another: what is sent to the resolver, what is hashed         *)
(***************************************************************************)
\* sys, usr = _prompt_*(...)
PromptsOf(kind, inputs) ==
    CASE kind = "*" -> _prompt_multiply(inputs[1], inputs[2])
      [] kind = "interpret" -> _prompt_interpret(inputs[1])
      [] kind = "U+2299" -> _prompt_elementwise(inputs[1], inputs[2])
      [] kind = "+" -> _prompt_add(inputs[1], inputs[2])
      [] kind = "U+00D7" -> _prompt_cross(inputs[1], inputs[2])

\* context = {"station": ..., "thread": thread, "rag_chunks": {}}
context(kind, thread) ==
    [station |-> CASE kind = "*" -> "requirements"
                   [] kind = "U+00D7" -> "assessment"
                   [] OTHER -> "objectives",
     thread |-> thread, rag_chunks |-> PyDict(<<>>)]

\* system_prompt, user_prompt and context of the call's resolver.resolve(...)
SentRequest(call) ==
    [system |-> PromptsOf(call.kind, call.inputs).system,
     user |-> PromptsOf(call.kind, call.inputs).user,
     context |-> context(call.kind, call.thread)]

InitRequest ==
    /\ args \in Args
    /\ now = 0 /\ cur = None /\ prev = None
    /\ cx = None /\ cx2 = None /\ cy = None /\ cy2 = None /\ cz = None
    /\ bv1 = None /\ bv2 = None /\ bg1 = None /\ bg2 = None
    /\ ser = None /\ pipe = None /\ opid = None /\ rcall = None
    /\ lru = None /\ comb = None /\ graph = None /\ pre = None

Request_First ==
    /\ cur = None
    /\ \E kind \in OperationKinds :
          cur' = Invoke(kind, args.thread,
                        IF kind = "interpret" THEN <<args.B>> ELSE <<args.A, args.B>>,
                        Echo, now)
    /\ UNCHANGED <<args, now, prev>>
    /\ UNCHANGED canonVars /\ UNCHANGED buildVars /\ UNCHANGED otherVars
    /\ UNCHANGED moreVars

\* the same function on the same grids, under any thread
Request_Second ==
    /\ cur # None /\ prev = None
    /\ \E thread \in Threads, t \in Readings :
          /\ cur' = Invoke(cur.kind, thread, cur.inputs, Echo, t)
          /\ now' = t
    /\ prev' = cur
    /\ UNCHANGED args /\ UNCHANGED canonVars /\ UNCHANGED buildVars /\ UNCHANGED otherVars
    /\ UNCHANGED moreVars

NextRequest == Request_First \/ Request_Second

SpecRequest == InitRequest /\ [][NextRequest]_vars

\* C21: the request hash stored in an Operation covers the system instruction, the user
\* payload and the context (thread id, stage label) sent to the resolver: two invocations
\* record the same hash exactly when their requests are identical, so two that differ only
\* in thread id record different hashes
C21_HashCoversFullRequest ==
    (prev # None /\ prev.raised = "" /\ cur.raised = "") =>
        ((cur.op.metadata.prompt_hash = prev.op.metadata.prompt_hash)
            <=> (SentRequest(cur) = SentRequest(prev)))

(***************************************************************************)
(* semmul.LRU: an OrderedDict from canonical key strings to result dicts,  *)
(* oldest use first                                                        *)
(***************************************************************************)
MaxCapacity == 2
MaxCalls == 4

\* s.split(): the maximal runs of characters that are not whitespace
Split(s) ==
    LET starts == {i \in 1..Len(s) : ~IsSpace(s[i]) /\ (i = 1 \/ IsSpace(s[i - 1]))}
        start(n) == CHOOSE i \in starts : Cardinality({j \in starts : j < i}) = n - 1
        end(i) == CHOOSE j \in i..Len(s) :
                      /\ \A m \in i..j : ~IsSpace(s[m])
                      /\ (j = Len(s) \/ IsSpace(s[j + 1]))
    IN  [n \in 1..Cardinality(starts) |-> SubSeq(s, start(n), end(start(n)))]

\* str.lower() of one character
LowerChar(c) ==
    IF c \in {Ascii[i] : i \in 34..59} THEN Ascii[CodePoint(c) + 1] ELSE c

Lower(s) == [i \in 1..Len(s) |-> LowerChar(s[i])]

\* a normaliser that keeps the case of its argument
norm_KeepCase(s) == Join(<<" ">>, Split(Strip(s)))

\* norm(s) of LRU._mk: " ".join(s.strip().split()).lower()
norm(s) == Lower(Join(<<" ">>, Split(Strip(s))))

K_t1 == <<"t", "1">>
K_t2 == <<"t", "2">>
K_ctx == <<"c", "t", "x">>

LRU_mk(k) ==
    JsonDumps(PyDict(<<Item(K_t1, PyStr(norm(k[1]))), Item(K_t2, PyStr(norm(k[2]))),
                       Item(K_ctx, PyStr(norm(k[3])))>>), TRUE, TRUE)

\* LRU(capacity)
LRU(capacity) == [capacity |-> capacity, _d |-> <<>>]

\* an OrderedDict entry; raw: the tuple its value was last set under
Entry(key, v, raw) == [k |-> key, v |-> v, raw |-> raw]

Has(d, key) == \E i \in 1..Len(d) : d[i].k = key

Position(d, key) == CHOOSE i \in 1..Len(d) : d[i].k = key

Without(d, i) == [j \in 1..(Len(d) - 1) |-> IF j < i THEN d[j] ELSE d[j + 1]]

\* OrderedDict.move_to_end(key)
move_to_end(d, i) == Append(Without(d, i), d[i])

\* OrderedDict.popitem(last=False)
popitem_first(d) == Without(d, 1)

\* a get that leaves the order of the entries alone
LRU_get_key_NoTouch(self, key) ==
    IF Has(self._d, key)
    THEN [self |-> self, ret |-> self._d[Position(self._d, key)].v]
    ELSE [self |-> self, ret |-> None]

\* LRU.get after key = self._mk(k)
LRU_get_key(self, key) ==
    IF Has(self._d, key)
    THEN [self |-> [self EXCEPT !._d = move_to_end(@, Position(@, key))],
          ret |-> self._d[Position(self._d, key)].v]
    ELSE [self |-> self, ret |-> None]

LRU_get(self, k) == LRU_get_key(self, LRU_mk(k))

\* self._d[key] = v; self._d.move_to_end(key)
LRU_put(d, key, v, raw) ==
    IF Has(d, key)
    THEN Append(Without(d, Position(d, key)), Entry(key, v, raw))
    ELSE Append(d, Entry(key, v, raw))

\* if len(self._d) > self.capacity: self._d.popitem(last=False)
LRU_trim(capacity, d) == IF Len(d) > capacity THEN popitem_first(d) ELSE d

LRU_set_key(self, key, v, raw) ==
    [self EXCEPT !._d = LRU_trim(self.capacity, LRU_put(@, key, v, raw))]

LRU_set(self, k, v) == LRU_set_key(self, LRU_mk(k), v, k)

\* the tuples callers look up: terms in several spellings of case and spacing
LookupKeys ==
    {<< <<"a">>, <<"x">>, <<>> >>,
     << <<" ", "A">>, <<"X", " ">>, <<>> >>,
     << <<"a", " ", "b">>, <<"x">>, <<"c">> >>,
     << <<"A", " ", "\t", "B">>, <<"x">>, <<" ", "C", " ">> >>,
     << <<"b">>, <<"x">>, <<>> >>,
     << <<"a", "b">>, <<"x">>, <<"c">> >>}

\* a result dict, told apart by the number of the call that stored it
Result(n) == [term |-> <<"r">>, stored_by |-> n]

InitLRU ==
    /\ \E capacity \in 0..MaxCapacity :
          lru = [cache |-> LRU(capacity), used |-> <<>>, last |-> None]
    /\ args = None /\ now = 0 /\ cur = None /\ prev = None
    /\ cx = None /\ cx2 = None /\ cy = None /\ cy2 = None /\ cz = None
    /\ bv1 = None /\ bv2 = None /\ bg1 = None /\ bg2 = None
    /\ ser = None /\ pipe = None /\ opid = None /\ rcall = None
    /\ comb = None /\ graph = None /\ pre = None

\* self._mk(k) of every tuple looked up
Keyed == [k \in LookupKeys |-> LRU_mk(k)]

\* used: the canonical keys of the sets and of the gets that found an entry, in order
Lookup(k) ==
    /\ Len(lru.used) < MaxCalls \/ ~Has(lru.cache._d, Keyed[k])
    /\ lru' = [cache |-> LRU_get_key(lru.cache, Keyed[k]).self,
               used |-> IF Has(lru.cache._d, Keyed[k])
                        THEN Append(lru.used, Keyed[k]) ELSE lru.used,
               last |-> [op |-> "get", k |-> k, ret |-> LRU_get_key(lru.cache, Keyed[k]).ret,
                         before |-> lru.cache._d]]

Store(k) ==
    /\ Len(lru.used) < MaxCalls
    /\ lru' = [cache |-> LRU_set_key(lru.cache, Keyed[k], Result(Len(lru.used) + 1), k),
               used |-> Append(lru.used, Keyed[k]),
               last |-> [op |-> "set", k |-> k, ret |-> None, before |-> lru.cache._d]]

LRU_get_call ==
    /\ \E k \in LookupKeys : Lookup(k)
    /\ UNCHANGED opVars /\ UNCHANGED canonVars /\ UNCHANGED buildVars /\ UNCHANGED otherVars
    /\ UNCHANGED <<comb, graph, pre>>

LRU_set_call ==
    /\ \E k \in LookupKeys : Store(k)
    /\ UNCHANGED opVars /\ UNCHANGED canonVars /\ UNCHANGED buildVars /\ UNCHANGED otherVars
    /\ UNCHANGED <<comb, graph, pre>>

NextLRU == LRU_get_call \/ LRU_set_call

SpecLRU == InitLRU /\ [][NextLRU]_vars

KeysOf(d) == [i \in 1..Len(d) |-> d[i].k]

\* the distinct keys of a use history, each at the place of its latest use
RECURSIVE LatestUses(_, _)
LatestUses(used, n) ==
    IF n = 0 THEN <<>>
    ELSE IF \E j \in (n + 1)..Len(used) : used[j] = used[n]
    THEN LatestUses(used, n - 1)
    ELSE Append(LatestUses(used, n - 1), used[n])

\* the last n elements of a sequence (all of them if it is shorter)
LastN(s, n) == SubSeq(s, Max({1, Len(s) - n + 1}), Len(s))

\* C22: after any sequence of LRU.get and LRU.set calls the cache holds at most
\* `capacity` entries, its keys are the (up to) `capacity` most recently used distinct
\* keys, least recent first, a set and a get that finds an entry both counting as a use,
\* and a set that exceeds the capacity evicts the single least recently used entry
C22_BoundedLRU ==
    /\ Len(lru.cache._d) <= lru.cache.capacity
    /\ KeysOf(lru.cache._d)
          = LastN(LatestUses(lru.used, Len(lru.used)), lru.cache.capacity)
    /\ (lru.last # None /\ lru.last.op = "set"
            /\ ~Has(lru.last.before, Keyed[lru.last.k])
            /\ Len(lru.last.before) = lru.cache.capacity /\ lru.cache.capacity > 0) =>
           /\ KeysOf(lru.cache._d)
                 = Append(KeysOf(popitem_first(lru.last.before)), Keyed[lru.last.k])
           /\ ~Has(lru.cache._d, lru.last.before[1].k)

\* a set of a third key into a full cache of two whose older entry had just been read
C22_Witness ==
    /\ lru.cache.capacity = 2 /\ Len(lru.used) = MaxCalls
    /\ lru.last.op = "set" /\ Len(lru.last.before) = 2
    /\ ~Has(lru.last.before, Keyed[lru.last.k])
    /\ lru.used[3] = lru.used[1] /\ lru.used[2] # lru.used[1]
    /\ ~Has(lru.cache._d, lru.used[2])

\* one character with its case folded
FoldChar(c) ==
    CASE c = "A" -> "a" [] c = "B" -> "b" [] c = "C" -> "c" [] c = "X" -> "x" [] OTHER -> c

\* a text with case folded, runs of whitespace collapsed to one space, ends trimmed
CanonText(s) == Strip(CollapseSpace([i \in 1..Len(s) |-> FoldChar(s[i])]))

SameLookup(k1, k2) == \A i \in 1..3 : CanonText(k1[i]) = CanonText(k2[i])

_sha(s) == <<"sha1(">> \o s \o <<")">>

EmptyGraph == [matrices |-> <<>>, nodes |-> <<>>, contains |-> {}, relates |-> <<>>]

RECURSIVE NatOf(_, _)
NatOf(s, n) == IF n = 0 THEN 0 ELSE 10 * NatOf(s, n - 1) + DigitValue(s[n])

\* float(val): the weight, or the exception that makes export skip the cell
Float(val) ==
    CASE val.t = "int" -> [ok |-> TRUE, w |-> val.n]
      [] val.t = "str" /\ val.s # <<>>
            /\ (\A i \in 1..Len(val.s) : val.s[i] \in {Digit(d) : d \in 0..9}) ->
            [ok |-> TRUE, w |-> NatOf(val.s, Len(val.s))]
      [] OTHER -> [ok |-> FALSE, w |-> 0]

\* MERGE (m:CFMatrix {id: $id}) SET m.createdAt on every run, not only ON CREATE
MergeMatrix_AlwaysStamp(g, id, createdAt, kind, name) ==
    [g EXCEPT !.matrices =
        (id :> [createdAt |-> createdAt, kind |-> kind, name |-> name]) @@ @]

\* MERGE (m:CFMatrix {id: $id}) ON CREATE SET m.createdAt = ... SET m.kind, m.name
MergeMatrix(g, id, createdAt, kind, name) ==
    IF id \in DOMAIN g.matrices
    THEN [g EXCEPT !.matrices[id] = [@ EXCEPT !.kind = kind, !.name = name]]
    ELSE [g EXCEPT !.matrices =
             (id :> [createdAt |-> createdAt, kind |-> kind, name |-> name]) @@ @]

\* MERGE (a:CFNode {id: $aid}) ON CREATE SET a.term = ..., a.station = ...
MergeNode(nodes, id, term, station) ==
    IF id \in DOMAIN nodes THEN nodes ELSE (id :> [term |-> term, station |-> station]) @@ nodes

\* the second session.run of a cell that is numeric and not zero
MergeCell(g, mid, aid, term_a, bid, term_b, kind, w) ==
    [matrices |-> g.matrices,
     nodes |-> MergeNode(MergeNode(g.nodes, aid, term_a, kind), bid, term_b, kind),
     contains |-> g.contains \cup {<<mid, aid>>, <<mid, bid>>},
     relates |-> (<<aid, bid>> :> w) @@ g.relates]

RowNode(thread_id, kind, i) == _sha(thread_id \o <<"|">> \o kind \o <<"|row|">> \o IntStr(i))

ColNode(thread_id, kind, j) == _sha(thread_id \o <<"|">> \o kind \o <<"|col|">> \o IntStr(j))

MatrixNode(thread_id, kind) == _sha(thread_id \o <<"|">> \o kind)

\* the body of: for i, row in enumerate(matrix): for j, val in enumerate(row)
ExportCell(g, thread_id, kind, i, j, val) ==
    IF ~Float(val).ok \/ Float(val).w = 0 THEN g
    ELSE MergeCell(g, MatrixNode(thread_id, kind),
                   RowNode(thread_id, kind, i), <<"Row">> \o IntStr(i),
                   ColNode(thread_id, kind, j), <<"Col">> \o IntStr(j),
                   kind, Float(val).w)

\* (i, j, val) of every cell in the order the two loops reach them
CellsOf(matrix) ==
    Concat([i \in 1..Len(matrix) |->
               [j \in 1..Len(matrix[i]) |-> <<i - 1, j - 1, matrix[i][j]>>]])

RECURSIVE ExportCells(_, _, _, _, _)
ExportCells(g, thread_id, kind, cells, n) ==
    IF n = 0 THEN g
    ELSE ExportCell(ExportCells(g, thread_id, kind, cells, n - 1), thread_id, kind,
                    cells[n][1], cells[n][2], cells[n][3])

\* for kind, matrix in matrices.items(), up to the n-th item
RECURSIVE ExportItems(_, _, _, _, _)
ExportItems(g, matrices, thread_id, createdAt, n) ==
    IF n = 0 THEN g
    ELSE ExportCells(MergeMatrix(ExportItems(g, matrices, thread_id, createdAt, n - 1),
                                 MatrixNode(thread_id, matrices[n].k), createdAt,
                                 matrices[n].k, thread_id \o <<" ">> \o matrices[n].k),
                     thread_id, matrices[n].k, CellsOf(matrices[n].v),
                     Len(CellsOf(matrices[n].v)))

\* export(matrices, thread_id) at clock reading t
export(g, matrices, thread_id, t) ==
    ExportItems(g, matrices, thread_id, isoformat(t), Len(matrices))

\* cell values: zero, a number, text that float() rejects, text that reads as zero or 3
WeightValues == {PyInt(0), PyInt(2), PyStr(<<"x">>), PyStr(<<"0">>), PyStr(<<"3">>)}

SmallMatrices ==
    {<<<<v>>>> : v \in WeightValues}
        \cup {<<<<v, w>>>> : v \in WeightValues, w \in WeightValues}
        \cup {<<<<v>>, <<w>>>> : v \in {PyInt(0), PyInt(2)}, w \in WeightValues}

\* {'A': ...} and {'A': ..., 'B': ...}
MatrixDicts ==
    {<<Item(<<"A">>, a)>> : a \in SmallMatrices}
        \cup {<<Item(<<"A">>, a), Item(<<"B">>, <<<<b>>>>)>> :
                 a \in SmallMatrices, b \in {PyInt(0), PyInt(2)}}

\* what an earlier run may have left in the graph under either thread
EarlierDicts == {<<Item(<<"A">>, <<<<PyInt(2), PyInt(2)>>>>)>>}

InitExport ==
    /\ \E matrices \in MatrixDicts, thread_id \in Threads :
          graph = [g |-> EmptyGraph, matrices |-> matrices, thread_id |-> thread_id,
                   runs |-> 0, earlier |-> FALSE, once |-> None]
    /\ args = None /\ now = 0 /\ cur = None /\ prev = None
    /\ cx = None /\ cx2 = None /\ cy = None /\ cy2 = None /\ cz = None
    /\ bv1 = None /\ bv2 = None /\ bg1 = None /\ bg2 = None
    /\ ser = None /\ pipe = None /\ opid = None /\ rcall = None
    /\ lru = None /\ comb = None /\ pre = None

\* another export, made before the one looked at
Export_Earlier ==
    /\ graph.runs = 0 /\ ~graph.earlier
    /\ \E matrices \in EarlierDicts, thread_id \in Threads, t \in Readings :
          /\ graph' = [graph EXCEPT !.g = export(@, matrices, thread_id, t),
                                    !.earlier = TRUE]
          /\ now' = t
    /\ UNCHANGED <<args, cur, prev>>
    /\ UNCHANGED canonVars /\ UNCHANGED buildVars /\ UNCHANGED otherVars
    /\ UNCHANGED <<lru, comb, pre>>

Export_Once ==
    /\ graph.runs = 0
    /\ \E t \in Readings :
          /\ graph' = [graph EXCEPT !.g = export(@, graph.matrices, graph.thread_id, t),
                                    !.once = export(graph.g, graph.matrices,
                                                    graph.thread_id, t),
                                    !.runs = 1]
          /\ now' = t
    /\ UNCHANGED <<args, cur, prev>>
    /\ UNCHANGED canonVars /\ UNCHANGED buildVars /\ UNCHANGED otherVars
    /\ UNCHANGED <<lru, comb, pre>>

Export_Twice ==
    /\ graph.runs = 1
    /\ \E t \in Readings :
          /\ graph' = [graph EXCEPT !.g = export(@, graph.matrices, graph.thread_id, t),
                                    !.runs = 2]
          /\ now' = t
    /\ UNCHANGED <<args, cur, prev>>
    /\ UNCHANGED canonVars /\ UNCHANGED buildVars /\ UNCHANGED otherVars
    /\ UNCHANGED <<lru, comb, pre>>

NextExport == Export_Earlier \/ Export_Once \/ Export_Twice

SpecExport == InitExport /\ [][NextExport]_vars

\* the (kind, i, j) of the exported cells that are numeric and not zero
Weighted(matrices) ==
    UNION {{<<matrices[n].k, c[1], c[2]>> :
               c \in {d \in {CellsOf(matrices[n].v)[q] : q \in 1..Len(CellsOf(matrices[n].v))} :
                          Float(d[3]).ok /\ Float(d[3]).w # 0}} :
           n \in 1..Len(matrices)}

\* C24: calling export twice with the same matrices and thread_id leaves the graph
\* (CFMatrix and CFNode nodes, CONTAINS and RELATES_TO relationships, their properties,
\* createdAt and weight included) as calling it once does; a cell whose value is zero or
\* not numeric creates no node and no relationship
C24_IdempotentExport ==
    /\ graph.runs = 2 => graph.g = graph.once
    /\ (graph.runs >= 1 /\ ~graph.earlier) =>
          /\ DOMAIN graph.g.nodes
                = {RowNode(graph.thread_id, w[1], w[2]) : w \in Weighted(graph.matrices)}
                     \cup {ColNode(graph.thread_id, w[1], w[3]) : w \in Weighted(graph.matrices)}
          /\ DOMAIN graph.g.relates
                = {<<RowNode(graph.thread_id, w[1], w[2]), ColNode(graph.thread_id, w[1], w[3])>> :
                      w \in Weighted(graph.matrices)}
          /\ graph.g.contains
                = {<<MatrixNode(graph.thread_id, w[1]), RowNode(graph.thread_id, w[1], w[2])>> :
                      w \in Weighted(graph.matrices)}
                     \cup {<<MatrixNode(graph.thread_id, w[1]), ColNode(graph.thread_id, w[1], w[3])>> :
                              w \in Weighted(graph.matrices)}

\* a second export at a later clock reading, into a graph an earlier run had written to,
\* of a matrix with a zero, a non-numeric and a weighted cell among its values
C24_Witness ==
    /\ graph.runs = 2 /\ graph.earlier /\ now = MaxClock
    /\ graph.g.matrices[MatrixNode(graph.thread_id, <<"A">>)].createdAt = isoformat(0)
    /\ graph.matrices[1].v = <<<<PyStr(<<"x">>), PyStr(<<"3">>)>>>>
    /\ DOMAIN graph.g.relates # {}

\* a first export into an empty graph of a matrix holding only a zero and a text cell
C24_WitnessSkipped ==
    /\ graph.runs = 1 /\ ~graph.earlier
    /\ graph.matrices = <<Item(<<"A">>, <<<<PyInt(0), PyStr(<<"x">>)>>>>)>>
    /\ DOMAIN graph.g.nodes = {}

(***************************************************************************)
(* Layout of the grids the op_* functions return                           *)
(***************************************************************************)
\* C25: every Grid returned by an op_* function has dimensions (rows, cols) such that it
\* holds exactly rows*cols cells, one for each position (r, c) with 0 <= r < rows and
\* 0 <= c < cols, in row-major order, each cell's row and col equal to its position
C25_GridLayout ==
    Returned =>
        /\ Len(cur.matrix.cells) = cur.matrix.dimensions[1] * cur.matrix.dimensions[2]
        /\ \A r \in 0..(cur.matrix.dimensions[1] - 1), c \in 0..(cur.matrix.dimensions[2] - 1) :
              /\ cur.matrix.cells[r * cur.matrix.dimensions[2] + c + 1].row = r
              /\ cur.matrix.cells[r * cur.matrix.dimensions[2] + c + 1].col = c

\* a grid returned for a resolver output whose second row is longer than its first
C25_Witness ==
    /\ Returned /\ cur.resolver.name = "other"
    /\ Len(cur.resolver.out) = 2
    /\ Len(cur.resolver.out[1]) = 1 /\ Len(cur.resolver.out[2]) = 2
    /\ cur.matrix.dimensions = <<2, 1>>

\* a grid of more than one row and more than one column returned
C25_WitnessSquare ==
    /\ Returned /\ cur.matrix.dimensions = <<2, 2>> /\ Len(cur.matrix.cells) = 4

(***************************************************************************)
(* The caller's grids across op_* calls.  Python passes the grids by       *)
(* reference: after a call the caller holds them as the function left      *)
(* them, which is what the call's Outcome carries in `inputs`.             *)
(***************************************************************************)
FrameResolvers ==
    {Echo} \cup {OpenAI("gpt-4o", [i \in 1..(max_retries + 1) |-> p]) :
                    p \in {APIError, CellsPayload(2, 2, <<2, 2>>)}}

InitFrame ==
    /\ args \in {a \in Args : a.thread = <<"t", "1">>}
    /\ now = MaxClock /\ cur = None /\ prev = None
    /\ cx = None /\ cx2 = None /\ cy = None /\ cy2 = None /\ cz = None
    /\ bv1 = None /\ bv2 = None /\ bg1 = None /\ bg2 = None
    /\ ser = None /\ pipe = None /\ opid = None /\ rcall = None
    /\ lru = None /\ comb = None /\ graph = None /\ pre = None

\* the caller's grids after a call: those the call was given, as it left them
Held(call) ==
    IF call.kind = "interpret"
    THEN [thread |-> args.thread, A |-> args.A, B |-> call.inputs[1]]
    ELSE [thread |-> args.thread, A |-> call.inputs[1], B |-> call.inputs[2]]

Frame_Call ==
    /\ prev = None
    /\ \E kind \in OperationKinds, resolver \in FrameResolvers :
          /\ cur' = Invoke(kind, args.thread,
                           IF kind = "interpret" THEN <<args.B>> ELSE <<args.A, args.B>>,
                           resolver, now)
          /\ args' = Held(cur')
    /\ prev' = cur
    /\ UNCHANGED now
    /\ UNCHANGED canonVars /\ UNCHANGED buildVars /\ UNCHANGED otherVars
    /\ UNCHANGED moreVars

NextFrame == Frame_Call

SpecFrame == InitFrame /\ [][NextFrame]_vars

\* C27: every op_* function, whether it returns or raises, leaves each input Grid as it
\* was (id, type, dimensions, metadata, every cell's id, position, content and
\* provenance), so the grids an earlier Operation record refers to stay as they were
C27_InputsNotMutated ==
    /\ [][args' = args]_vars
    /\ [](prev # None /\ prev # cur /\ prev.raised = "" =>
             \A i \in 1..Len(prev.inputs) :
                 /\ prev.op.inputs[i] = prev.inputs[i].id
                 /\ prev.inputs[i] \in {args.A, args.B})

\* a second call, one that raises, after a call that returned an Operation
C27_Witness ==
    /\ prev # None /\ prev.raised = "" /\ prev.op # None
    /\ cur.raised # "" /\ cur.kind = "interpret"
    /\ args.B.dimensions = <<2, 2>>

\* C28: within one thread, after any sequence of op_* invocations, two output grids whose
\* cell contents or dimensions differ never carry the same grid id
C28_GridIdsIdentifyGrids ==
    (prev # None /\ prev.raised = "" /\ cur.raised = "" /\ prev.thread = cur.thread
        /\ ~SameContents(prev.matrix, cur.matrix)) =>
        prev.matrix.id # cur.matrix.id

(***************************************************************************)
(* generate_thread_id and generate_operation_id (core/ids.py) on two       *)
(* argument triples: are the hashed strings, and so the ids, different?    *)
(***************************************************************************)
\* called with a timestamp given
generate_thread_id(user_id, session_id, timestamp) ==
    <<"thread_">> \o sha256_hex12(user_id \o <<":">> \o session_id \o <<":">> \o timestamp)

\* user, session and grid identifiers a caller may pass
Names == {<<"a">>, <<"b">>, <<"a", ":", "b">>, <<"b", ":", "a">>}

ThreadTriples == Names \X Names \X {isoformat(t) : t \in 0..MaxClock}

OperationTriples ==
    {<<"*">>, <<"+">>}
        \X (UNION {[1..k -> Names \ {<<"b", ":", "a">>}] : k \in 0..MaxItems})
        \X {isoformat(t) : t \in 0..MaxClock}

InitPre ==
    /\ \/ \E x \in ThreadTriples, y \in ThreadTriples :
             pre = [f |-> "generate_thread_id", x |-> x, y |-> y, idx |-> None, idy |-> None]
       \/ \E x \in OperationTriples, y \in OperationTriples :
             pre = [f |-> "generate_operation_id", x |-> x, y |-> y,
                    idx |-> None, idy |-> None]
    /\ args = None /\ now = 0 /\ cur = None /\ prev = None
    /\ cx = None /\ cx2 = None /\ cy = None /\ cy2 = None /\ cz = None
    /\ bv1 = None /\ bv2 = None /\ bg1 = None /\ bg2 = None
    /\ ser = None /\ pipe = None /\ opid = None /\ rcall = None
    /\ lru = None /\ comb = None /\ graph = None

Pre_thread ==
    /\ pre.f = "generate_thread_id" /\ pre.idx = None
    /\ pre' = [pre EXCEPT !.idx = generate_thread_id(pre.x[1], pre.x[2], pre.x[3]),
                          !.idy = generate_thread_id(pre.y[1], pre.y[2], pre.y[3])]
    /\ UNCHANGED opVars /\ UNCHANGED canonVars /\ UNCHANGED buildVars /\ UNCHANGED otherVars
    /\ UNCHANGED <<lru, comb, graph>>

Pre_operation ==
    /\ pre.f = "generate_operation_id" /\ pre.idx = None
    /\ pre' = [pre EXCEPT !.idx = generate_operation_id(pre.x[1], pre.x[2], pre.x[3]),
                          !.idy = generate_operation_id(pre.y[1], pre.y[2], pre.y[3])]
    /\ UNCHANGED opVars /\ UNCHANGED canonVars /\ UNCHANGED buildVars /\ UNCHANGED otherVars
    /\ UNCHANGED <<lru, comb, graph>>

NextPre == Pre_thread \/ Pre_operation

SpecPre == InitPre /\ [][NextPre]_vars

\* the set of a list's elements
Elements(s) == {s[i] : i \in 1..Len(s)}

\* C29: the string generate_thread_id hashes is different for every two distinct
\* (user_id, session_id, timestamp) triples, and the string generate_operation_id hashes
\* is different for every two distinct (operation_type, set of input ids, timestamp)
\* triples; the digest being modelled by the string hashed, the ids differ too
C29_InjectivePreImages ==
    (pre # None /\ pre.idx # None) =>
        /\ (pre.f = "generate_thread_id" /\ pre.x # pre.y) => pre.idx # pre.idy
        /\ (pre.f = "generate_operation_id"
               /\ <<pre.x[1], Elements(pre.x[2]), pre.x[3]>>
                     # <<pre.y[1], Elements(pre.y[2]), pre.y[3]>>) => pre.idx # pre.idy

(***************************************************************************)
(* semmul.SemanticCombiner: combine_terms and combine_batch over the LRU   *)
(* cache.  The backend is outside the program: what it does at each attempt *)
(* of _call_llm_json is given with each call as a script.                  *)
(***************************************************************************)
MaxBatch == 2

\* _call_llm_json(user_obj, attempts=2, ...)
attempts == 2

\* an attempt that ends in the except branch: the API call raises, the content is
\* empty, or json.loads fails
LLMError == [t |-> "error"]

\* JSON without a "results" list
LLMNoResults == [t |-> "no results"]

\* the n-th item of a response: a term with spaces around it and more than four
\* words, and four alternates.  origin is not a key of the dict: it records the
\* item's place in the response, for the properties only
BackendItem(n) ==
    [term |-> <<" ", "r", Digit(n), " ", "b", " ", "c", " ", "d", " ", "e", " ">>,
     alternates |-> << <<"a", "1">>, <<" ", "a", "2">>, <<"a", "3">>, <<"a", "4">> >>,
     confidence |-> "0.9", origin |-> n]

\* {"results": [...]} with n items
LLMResults(n) == [t |-> "results", results |-> [i \in 1..n |-> BackendItem(i)]]

\* the item _validate_and_clean pads with; origin 0: not from the backend
Placeholder == [term |-> <<>>, alternates |-> <<>>, confidence |-> "0.5", origin |-> 0]

\* results[:expected], or results padded to expected items
Aligned(results, expected) ==
    [i \in 1..expected |-> IF i <= Len(results) THEN results[i] ELSE Placeholder]

\* term = (item.get("term") or "").strip(), alternates, confidence
Cleaned(results) ==
    [i \in 1..Len(results) |-> [results[i] EXCEPT !.term = Strip(@)]]

_validate_and_clean(obj, expected) ==
    IF obj.t # "results" THEN [raised |-> "ValueError", parsed |-> <<>>]
    ELSE [raised |-> "", parsed |-> Cleaned(Aligned(obj.results, expected))]

\* " ".join(words[:max_words])
_enforce_word_limit(s, max_words) ==
    Join(<<" ">>, SubSeq(Split(Strip(s)), 1, Min({max_words, Len(Split(Strip(s)))})))

\* the post constraints of combine_batch on one parsed item: term of at most four
\* words, at most three alternates
Constrained(item) ==
    [item EXCEPT !.term = _enforce_word_limit(@, 4),
                 !.alternates = [i \in 1..Min({3, Len(@)}) |-> _enforce_word_limit(@[i], 4)]]

\* a cache check that queries every pair
CheckGot_AlwaysQuery(acc, k, i, got) ==
    [cache |-> got.self, results |-> Append(acc.results, None),
     to_query |-> Append(acc.to_query, [idx |-> i, pair |-> k])]

\* one step of "Check cache first": got is self.cache.get((t1, t2, ctx))
CheckGot(acc, k, i, got) ==
    IF got.ret # None
    THEN [cache |-> got.self, results |-> Append(acc.results, got.ret),
          to_query |-> acc.to_query]
    ELSE [cache |-> got.self, results |-> Append(acc.results, None),
          to_query |-> Append(acc.to_query, [idx |-> i, pair |-> k])]

CheckStep(acc, keys, k, i) == CheckGot(acc, k, i, LRU_get_key(acc.cache, keys[k]))

\* for i, p in enumerate(pairs), up to the n-th pair
RECURSIVE CheckCache(_, _, _, _)
CheckCache(cache, keys, pairs, n) ==
    IF n = 0 THEN [cache |-> cache, results |-> <<>>, to_query |-> <<>>]
    ELSE CheckStep(CheckCache(cache, keys, pairs, n - 1), keys, pairs[n], n)

\* one step of "Fill results + cache"
FillStep(acc, keys, q, item) ==
    [cache |-> LRU_set_key(acc.cache, keys[q.pair], item, q.pair),
     results |-> [acc.results EXCEPT ![q.idx] = item]]

\* for (orig_idx, pair_dict), item in zip(to_query, parsed), up to the n-th
RECURSIVE Fill(_, _, _, _, _)
Fill(acc, keys, to_query, parsed, n) ==
    IF n = 0 THEN acc
    ELSE FillStep(Fill(acc, keys, to_query, parsed, n - 1), keys, to_query[n],
                  Constrained(parsed[n]))

Payload(to_query) == [i \in 1..Len(to_query) |-> to_query[i].pair]

\* a failed attempt before the rest of the loop: its request was sent too
Resent(user_obj, rest) == [rest EXCEPT !.sent = <<user_obj>> \o @]

\* for attempt in range(attempts), from the attempt-th time round the loop; sent:
\* the requests made of the backend (the sleeps between them change no state)
RECURSIVE _call_llm_json(_, _, _)
_call_llm_json(user_obj, script, attempt) ==
    IF attempt > attempts
    THEN [raised |-> "RuntimeError", json |-> None, sent |-> <<>>]
    ELSE IF script[attempt] # LLMError
    THEN [raised |-> "", json |-> script[attempt], sent |-> <<user_obj>>]
    ELSE Resent(user_obj, _call_llm_json(user_obj, script, attempt + 1))

\* combine_batch returning after the fill
Filled(acc, llm) == [cache |-> acc.cache, raised |-> "", ret |-> acc.results, llm |-> llm]

\* combine_batch once the cache has been checked; called: what _call_llm_json
\* gives, clean: what _validate_and_clean gives
Queried(checked, keys, called, clean) ==
    IF checked.to_query = <<>>
    THEN [cache |-> checked.cache, raised |-> "", ret |-> checked.results, llm |-> <<>>]
    ELSE IF called.raised # ""
    THEN [cache |-> checked.cache, raised |-> called.raised, ret |-> None,
          llm |-> called.sent]
    ELSE IF clean.raised # ""
    THEN [cache |-> checked.cache, raised |-> clean.raised, ret |-> None,
          llm |-> called.sent]
    ELSE Filled(Fill([cache |-> checked.cache, results |-> checked.results], keys,
                     checked.to_query, clean.parsed, Len(checked.to_query)),
                called.sent)

Requested(checked, keys, called) ==
    Queried(checked, keys, called,
            IF called.raised # "" THEN None
            ELSE _validate_and_clean(called.json, Len(checked.to_query)))

Checked(checked, keys, script) ==
    Requested(checked, keys, _call_llm_json(Payload(checked.to_query), script, 1))

\* combine_batch(pairs); keys: self.cache._mk of every tuple; script: what the
\* backend does at each attempt
combine_batch(cache, keys, pairs, script) ==
    Checked(CheckCache(cache, keys, pairs, Len(pairs)), keys, script)

\* combine_terms after the batch of one pair has come back
Combined(batch, keys, k) ==
    IF batch.raised # "" THEN batch
    ELSE [cache |-> LRU_set_key(batch.cache, keys[k], batch.ret[1], k), raised |-> "",
          ret |-> batch.ret[1], llm |-> batch.llm]

\* combine_terms after cached = self.cache.get((term1, term2, context))
Looked(got, keys, k, script) ==
    IF got.ret # None
    THEN [cache |-> got.self, raised |-> "", ret |-> got.ret, llm |-> <<>>]
    ELSE Combined(combine_batch(got.self, keys, <<k>>, script), keys, k)

combine_terms(cache, keys, k, script) ==
    Looked(LRU_get_key(cache, keys[k]), keys, k, script)

\* the pairs callers combine: two spellings of one pair and another pair
CombinerKeys ==
    {<< <<"a">>, <<"x">>, <<>> >>,
     << <<" ", "A">>, <<"X", " ">>, <<>> >>,
     << <<"b">>, <<"x">>, <<>> >>}

Batches == UNION {[1..n -> CombinerKeys] : n \in 0..MaxBatch}

\* what the backend may answer at an attempt: JSON without results, or with fewer,
\* as many or more results than pairs
LLMAnswers == {LLMNoResults} \cup {LLMResults(n) : n \in 0..(MaxBatch + 1)}

\* the attempts of one _call_llm_json: an answer at once, or an error and then
\* another error or an answer
LLMScripts ==
    {<<a>> : a \in LLMAnswers} \cup {<<LLMError, LLMError>>, <<LLMError, LLMResults(1)>>}

\* SemanticCombiner(...): self.cache = LRU(capacity=cache_capacity)
InitCombiner ==
    /\ \E cache_capacity \in 1..MaxCapacity :
          comb = [cache |-> LRU(cache_capacity), last |-> None, earlier |-> None]
    /\ args = None /\ now = 0 /\ cur = None /\ prev = None
    /\ cx = None /\ cx2 = None /\ cy = None /\ cy2 = None /\ cz = None
    /\ bv1 = None /\ bv2 = None /\ bg1 = None /\ bg2 = None
    /\ ser = None /\ pipe = None /\ opid = None /\ rcall = None
    /\ lru = None /\ graph = None /\ pre = None

\* last: the call just made, with the cache it found; earlier: the call before it
CombinerCall(op, pairs, script, out) ==
    comb' = [cache |-> out.cache,
             last |-> [op |-> op, pairs |-> pairs, script |-> script,
                       before |-> comb.cache._d, raised |-> out.raised,
                       ret |-> out.ret, llm |-> out.llm],
             earlier |-> comb.last]

Combiner_combine_batch ==
    /\ comb.earlier = None
    /\ \E pairs \in Batches : \E script \in LLMScripts :
          CombinerCall("combine_batch", pairs, script,
                       combine_batch(comb.cache, Keyed, pairs, script))
    /\ UNCHANGED opVars /\ UNCHANGED canonVars /\ UNCHANGED buildVars /\ UNCHANGED otherVars
    /\ UNCHANGED <<lru, graph, pre>>

Combiner_combine_terms ==
    /\ comb.earlier = None
    /\ \E k \in CombinerKeys : \E script \in LLMScripts :
          CombinerCall("combine_terms", <<k>>, script,
                       combine_terms(comb.cache, Keyed, k, script))
    /\ UNCHANGED opVars /\ UNCHANGED canonVars /\ UNCHANGED buildVars /\ UNCHANGED otherVars
    /\ UNCHANGED <<lru, graph, pre>>

NextCombiner == Combiner_combine_batch \/ Combiner_combine_terms

SpecCombiner == InitCombiner /\ [][NextCombiner]_vars

\* the positions, up to n, of the pairs the cache d has no entry for
RECURSIVE UncachedUpTo(_, _, _)
UncachedUpTo(d, pairs, n) ==
    IF n = 0 THEN <<>>
    ELSE IF Has(d, Keyed[pairs[n]]) THEN UncachedUpTo(d, pairs, n - 1)
    ELSE Append(UncachedUpTo(d, pairs, n - 1), n)

Uncached == UncachedUpTo(comb.last.before, comb.last.pairs, Len(comb.last.pairs))

\* the uncached pairs, in input order
UncachedPairs == [q \in 1..Len(Uncached) |-> comb.last.pairs[Uncached[q]]]

\* the answer _call_llm_json ends with: the first attempt's, or the second's after an error
FinalAnswer == IF comb.last.script[1] # LLMError THEN comb.last.script[1]
               ELSE comb.last.script[2]

Answered == Uncached = <<>> \/ FinalAnswer.t = "results"

\* the list returned is aligned with the input and the resolved pairs are cached
BatchReturn ==
    /\ comb.last.raised = ""
    /\ Len(comb.last.ret) = Len(comb.last.pairs)
    /\ \A i \in 1..Len(comb.last.pairs) :
          Has(comb.last.before, Keyed[comb.last.pairs[i]]) =>
              comb.last.ret[i]
                 = comb.last.before[Position(comb.last.before, Keyed[comb.last.pairs[i]])].v
    /\ \A q \in 1..Len(Uncached) :
          IF q <= Len(FinalAnswer.results)
          THEN /\ comb.last.ret[Uncached[q]].origin = q
               /\ comb.last.ret[Uncached[q]].term
                     = <<"r", Digit(q), " ", "b", " ", "c", " ", "d">>
          ELSE comb.last.ret[Uncached[q]].origin = 0
    /\ Cardinality({Keyed[UncachedPairs[q]] : q \in 1..Len(Uncached)})
           <= comb.cache.capacity =>
          \A q \in 1..Len(Uncached) :
              /\ Has(comb.cache._d, Keyed[UncachedPairs[q]])
              /\ \E p \in 1..Len(Uncached) :
                    /\ Keyed[UncachedPairs[p]] = Keyed[UncachedPairs[q]]
                    /\ comb.cache._d[Position(comb.cache._d, Keyed[UncachedPairs[q]])].v
                          = comb.last.ret[Uncached[p]]

C26_WitnessAllCached ==
    /\ comb.last # None /\ comb.last.op = "combine_batch"
    /\ Len(comb.last.pairs) = 2 /\ Uncached = <<>> /\ comb.last.llm = <<>>

\* C30: every entry of the cache is the cleaned result the backend returned for
\* its pair: the placeholder _validate_and_clean pads a short response with is
\* never stored in the cache and never served by a later lookup
C30_CacheHoldsOnlyBackendResults ==
    /\ \A i \in 1..Len(comb.cache._d) : comb.cache._d[i].v.origin # 0
    /\ (comb.last # None /\ comb.last.raised = "" /\ comb.last.llm = <<>>) =>
           \A i \in 1..Len(comb.last.pairs) :
               (IF comb.last.op = "combine_terms" THEN comb.last.ret
                ELSE comb.last.ret[i]).origin # 0

\* a placeholder served from the cache by a later call that made no request
C30_PlaceholderServed ==
    ~ /\ comb.last # None /\ comb.last.op = "combine_terms"
      /\ comb.last.raised = "" /\ comb.last.llm = <<>>
      /\ comb.last.ret.origin = 0

====
